---- MODULE Spec2Model ----
(***************************************************************************)
(* State-machine model of jira-generator: the tracker gateway (JiraClient), *)
(* the hierarchy, constraint, project and version builders, and the part of *)
(* main() that runs them.  The remote tracker is modelled as the set of     *)
(* entities it holds; every remote call may fail with a transport error.    *)
(*                                                                          *)
(* A summary is a sequence of words.  A Python dict returned by the gateway *)
(* is a record whose field `has` is the set of the dict's keys, so that     *)
(* truthiness (`if issue`) and membership (`'key' in issue`) are computed   *)
(* as the code computes them.                                               *)
(***************************************************************************)
EXTENDS Integers, Sequences, FiniteSets, TLC

\* ------------------------------------------------------------------ bounds

\* Number of main() invocations in one behaviour.
MaxRuns == 2
\* Number of disturbances in one behaviour: remote calls that fail with a
\* transport error, user interruptions, runs with a connection setting missing.
MaxFaults == 1
\* Number of issues, not created by this program, that the tracker holds at start.
MaxForeign == 2

\* search_issues(max_results=100): the page size of one search, scaled down
\* so that a search with more matches than one page is reachable.
MaxResults == 2

\* ------------------------------------------------------------------ seed data

\* data/projects.py: PROJECTS (two of the five keys).
PROJECTS == <<"DEVEX", "GOV">>

\* config.py: ISSUE_TYPE_NAMES.
ISSUE_TYPE_NAMES ==
  [strategic_objective |-> "Strategic Objective",
   portfolio_epic      |-> "Portfolio Epic",
   business_outcome    |-> "Business Outcome",
   feature             |-> "Feature",
   story               |-> "Story",
   constraint          |-> "Constraint"]

\* data/hierarchy.py: HIERARCHY, the nested seed tree (a part of it: two of the
\* Strategic Objectives, with some of their Portfolio Epics, Business Outcomes
\* and Features).
HIERARCHY ==
  << [strategic_objective |-> [summary |-> <<"Streamline", "Developer", "Experience">>,
                               project |-> "DEVEX"],
      portfolio_epics |->
        << [summary |-> <<"Self-Service", "Infrastructure">>,
            business_outcomes |->
              << [summary |-> <<"On-Demand", "Environment", "Provisioning">>,
                  features |-> << [summary |-> <<"Environment", "request", "portal">>],
                                  [summary |-> <<"Cloud", "IDE", "provisioning">>] >>],
                 [summary |-> <<"Database", "Self-Service">>,
                  features |-> << [summary |-> <<"Schema", "migration", "automation">>] >>] >>],
           [summary |-> <<"Unified", "CI/CD", "Platform">>,
            business_outcomes |->
              << [summary |-> <<"Pipeline", "Standardization">>,
                  features |-> << [summary |-> <<"Golden", "pipeline", "templates">>] >>] >>] >>],
     [strategic_objective |-> [summary |-> <<"Automate", "Governance", "&", "Compliance">>,
                               project |-> "GOV"],
      portfolio_epics |->
        << [summary |-> <<"Policy-as-Code", "Platform">>,
            business_outcomes |-> << >>] >>] >>

\* data/constraints.py: CONSTRAINTS (three of the records; the third blocks a
\* Feature of a part of the seed tree that HIERARCHY above leaves out).
CONSTRAINTS ==
  << [summary |-> <<"WAF", "rules", "must", "be", "configured", "before", "production",
                    "deployment">>,
      status |-> "Identified",
      blocks |-> [project |-> "DEVEX", type |-> "Business Outcome",
                  summary |-> <<"On-Demand", "Environment", "Provisioning">>]],
     [summary |-> <<"Penetration", "testing", "must", "be", "completed", "for", "new",
                    "APIs">>,
      status |-> "In Progress",
      blocks |-> [project |-> "DEVEX", type |-> "Feature",
                  summary |-> <<"Environment", "request", "portal">>]],
     [summary |-> <<"GDPR", "right-to-deletion", "workflow", "required">>,
      status |-> "Ready for Review",
      blocks |-> [project |-> "GOV", type |-> "Feature",
                  summary |-> <<"Exception", "management", "portal">>]] >>

\* setup_versions.py: VERSIONS (two of the five names).
VERSIONS == <<"v1.0.0", "v2.0.0">>

\* CONSTRAINT_WORKFLOW['transitions'] as it would be without the transition
\* 'Submit for Review'.
WorkflowWithoutSubmit ==
  { [from |-> "Identified",       to |-> "In Progress",      name |-> "Start Work"],
    [from |-> "Ready for Review", to |-> "Closed",           name |-> "Approve & Close"],
    [from |-> "Ready for Review", to |-> "In Progress",      name |-> "Reject"],
    [from |-> "In Progress",      to |-> "Identified",       name |-> "Stop Work"] }

\* config.py: CONSTRAINT_WORKFLOW['transitions'].
CONSTRAINT_WORKFLOW ==
  { [from |-> "Identified",       to |-> "In Progress",      name |-> "Start Work"],
    [from |-> "In Progress",      to |-> "Ready for Review", name |-> "Submit for Review"],
    [from |-> "Ready for Review", to |-> "Closed",           name |-> "Approve & Close"],
    [from |-> "Ready for Review", to |-> "In Progress",      name |-> "Reject"],
    [from |-> "In Progress",      to |-> "Identified",       name |-> "Stop Work"] }

\* The Constraint workflow of a tracker that was set up otherwise: it has no
\* transition named "Start Work", and "Submit for Review" leaves every status
\* before "Ready for Review".
OtherWorkflow ==
  { [from |-> "Identified",       to |-> "In Progress",      name |-> "Begin Work"],
    [from |-> "Identified",       to |-> "Ready for Review", name |-> "Submit for Review"],
    [from |-> "In Progress",      to |-> "Ready for Review", name |-> "Submit for Review"],
    [from |-> "Ready for Review", to |-> "Closed",           name |-> "Approve & Close"] }

\* A table that names only the transition that enters the target status.
LastTransitionOnly(target_status) ==
  IF target_status = "In Progress" THEN <<"Start Work">>
  ELSE IF target_status = "Ready for Review" THEN <<"Submit for Review">>
  ELSE IF target_status = "Closed" THEN <<"Approve & Close">>
  ELSE << >>

\* _transition_to_status: transition_paths.get(target_status, []).
TransitionPath(target_status) ==
  IF target_status = "In Progress" THEN <<"Start Work">>
  ELSE IF target_status = "Ready for Review" THEN <<"Start Work", "Submit for Review">>
  ELSE IF target_status = "Closed"
       THEN <<"Start Work", "Submit for Review", "Approve & Close">>
  ELSE << >>

\* config.py: CONSTRAINT_CUSTOM_FIELDS['mitigation_plan']['name'].
MitigationPlan == "Mitigation Plan"

\* The stats keys of HierarchyBuilder, by depth in the tree.
LevelName == <<"strategic_objectives", "portfolio_epics", "business_outcomes", "features">>

\* The issue type of each depth (create_strategic_objective .. create_feature).
LevelType == <<ISSUE_TYPE_NAMES.strategic_objective, ISSUE_TYPE_NAMES.portfolio_epic,
               ISSUE_TYPE_NAMES.business_outcome, ISSUE_TYPE_NAMES.feature>>

\* ------------------------------------------------------------------ values

\* Python None where an issue key is expected.
NoKey == << >>

\* Python None where a dict is expected.
PyNone == [none |-> TRUE, has |-> {}, key |-> NoKey, summary |-> << >>]

\* The dict {} that _request's mock response decodes to in a dry run.
EmptyDict == [none |-> FALSE, has |-> {}, key |-> NoKey, summary |-> << >>]

\* The body of the tracker's answer to POST /issue: {"id", "key", "self"}.
CreatedDict(k) == [none |-> FALSE, has |-> {"id", "key", "self"}, key |-> k, summary |-> << >>]

\* One element of the tracker's answer to a search: {"id", "key", "self", "fields"}.
FoundDict(i) ==
  [none |-> FALSE, has |-> {"id", "key", "self", "fields"}, key |-> i.key, summary |-> i.summary]

\* Python truthiness of an Optional[Dict]: None and {} are falsy.
Truthy(d) == ~d.none /\ d.has # {}

\* dict.get('key').
GetKey(d) == IF "key" \in d.has THEN d.key ELSE NoKey

\* ------------------------------------------------------------------ state

VARIABLES
  tracker,          \* the remote tracker: what it holds
  sent,             \* the requests that reached the tracker in this run, in order
  client,           \* JiraClient: dry_run and its caches
  \* HierarchyBuilder
  created_issues,   \* HierarchyBuilder.created_issues: cache key -> issue dict
  stats,            \* HierarchyBuilder.stats
  pos,              \* build_hierarchy's loop indices: <<i>>, <<i,j>>, <<i,j,k>>, <<i,j,k,l>>
  parent_keys,      \* <<so_key, pe_key, bo_key>> of the branch being walked
  visited,          \* loop indices -> what find-or-create did there in this run
  \* the other builders
  others,           \* loop indices, statistics and results of the project, version
                    \* and constraint builders
  \* main
  pc,               \* where main() is: "idle" between runs, else the phase
  args,             \* the phases requested on the command line
  config,           \* JIRA_CONFIG as this run found it: each connection setting is
                    \* "absent", "empty" or "set"
  confirm,          \* what the user typed at the confirmation prompt of this run
  run,              \* number of main() invocations started
  phases,           \* of this run: the phases that were started and those whose
                    \* end-of-phase summary was printed
  exit_code,        \* what the last main() returned (-1: none yet; NoReturn: an
                    \* exception left main())
  interrupted,      \* the user interrupted this run (KeyboardInterrupt)
  faults,           \* disturbances so far: transport errors, interruptions,
                    \* runs with a setting missing
  \* observations used by the properties
  lastFind,         \* the last find_issue_by_summary call and its result
  lastCall,         \* the last gateway operation called directly and what it did
  absent,           \* natural keys whose lookup returned absent in this run
  atStart,          \* the tracker when this run started
  firstRun          \* what the first run left behind

vars == <<tracker, sent, client, created_issues, stats, pos, parent_keys, visited,
          others, pc, args, config, confirm, run, phases, exit_code, interrupted, faults, lastFind, lastCall, absent, atStart,
          firstRun>>

\* ------------------------------------------------------------------ the tracker

\* tracker is a record:
\*   projects   keys of the projects it holds
\*   issues     its issues: records [key, project, type, summary, parent, status]
\*   versions   its fix versions: pairs <<project, name>>
\*   types      names of its issue types, in the order it lists them
\*   fields     its fields, in the order it lists them: records [name, custom]
\*   linkTypes  names of its issue link types, in the order it lists them
\*   links      its issue links: records [type, inward, outward]
\*   workflow   the transitions of its Constraint workflow: records [from, to, name]
\*   id         the number it gives to the next issue
\*   may_delete the client's user has the permission to delete issues

\* text is a contiguous part of summary: the tracker's `summary ~ "text"`.
Contains(summary, text) ==
  \E i \in 1..(Len(summary) - Len(text) + 1) :
    SubSeq(summary, i, i + Len(text) - 1) = text

\* find_issue_by_summary's escaping: every double quote gets a backslash before it.
RECURSIVE Escape(_)
Escape(summary) ==
  IF summary = << >> THEN << >>
  ELSE IF Head(summary) = "\"" THEN <<"\\", "\"">> \o Escape(Tail(summary))
  ELSE <<Head(summary)>> \o Escape(Tail(summary))

\* The tracker reading a quoted JQL string: a backslash quotes the next word.
RECURSIVE JqlUnescape(_)
JqlUnescape(text) ==
  IF text = << >> THEN << >>
  ELSE IF Head(text) = "\\" /\ Len(text) > 1
       THEN <<text[2]>> \o JqlUnescape(Tail(Tail(text)))
  ELSE <<Head(text)>> \o JqlUnescape(Tail(text))

\* The issues a JQL query [project, text, issuetype] selects (issuetype "" = any).
Matches(issues, jql) ==
  {i \in issues : /\ i.project = jql.project
                  /\ Contains(i.summary, JqlUnescape(jql.text))
                  /\ (jql.issuetype = "" \/ i.type = jql.issuetype)}

Min(a, b) == IF a < b THEN a ELSE b

\* The pages the tracker may answer a search with: at most max_results of the
\* matching issues, in an order the query does not fix.
SearchResults(issues, jql, max_results) ==
  LET M == Matches(issues, jql)
      n == Min(max_results, Cardinality(M))
  IN  {[x \in 1..n |-> FoundDict(page[x])] :
         page \in {f \in [1..n -> M] : \A a, b \in 1..n : a # b => f[a] # f[b]}}

\* The status the tracker gives a new issue: the first status of its workflow.
InitialStatus(issue_type) ==
  IF issue_type = ISSUE_TYPE_NAMES.constraint THEN "Identified" ELSE "Open"

\* The tracker's new issue for POST /issue.
NewIssue(id, project_key, issue_type, summary, parent_key) ==
  [key |-> <<project_key, id>>, project |-> project_key, type |-> issue_type,
   summary |-> summary, parent |-> parent_key, status |-> InitialStatus(issue_type)]

\* The tracker holds an issue with this project, type and summary.
IssuePresent(issues, project_key, issue_type, summary) ==
  \E i \in issues : i.project = project_key /\ i.type = issue_type /\ i.summary = summary

\* The elements of a sequence.
Range(seq) == {seq[x] : x \in 1..Len(seq)}

\* The names of the custom fields among the tracker's fields.
CustomNames(fields) == {f.name : f \in {g \in Range(fields) : g.custom}}

\* A request as the tracker receives it.  `key` is the natural key it is about,
\* `parent` the parent link of a create-issue request; `present` is the tracker's
\* own observation: it already held an entity with that natural key.
Request(method, op, key, parent, present) ==
  [method |-> method, op |-> op, key |-> key, parent |-> parent, present |-> present]

\* ------------------------------------------------------------------ JiraClient

\* client is a record: dry_run, and the four lookup caches project_cache,
\* issue_type_cache, field_cache, link_type_cache (functions from a key or name
\* to the cached dict).  The gateway operations below are given the client C and
\* the tracker T and yield the set of things the call can do: `raised` (an
\* exception left the method), `value` (what it returned), `reqs` (the requests
\* that reached the tracker), `nfaults` (transport errors among them), `absent`
\* (the natural keys a lookup of the call found absent), and the client and
\* tracker after the call.

\* JiraClient.__init__.
JiraClient(dry_run) ==
  [dry_run |-> dry_run, project_cache |-> << >>, issue_type_cache |-> << >>,
   field_cache |-> << >>, link_type_cache |-> << >>]

\* A dict describing an entity the tracker holds.
EntityDict(k) == [none |-> FALSE, has |-> {"id", "key", "self"}, key |-> k, summary |-> << >>]

\* _request without its dry-run branch.
NeverSuppressed(C, method) == FALSE

\* _request: in a dry run every method but GET returns the mock response
\* without contacting the tracker.
Suppressed(C, method) == C.dry_run /\ method # "GET"

Outcome(raised, value, reqs, nfaults, C, T) ==
  [raised |-> raised, value |-> value, reqs |-> reqs, nfaults |-> nfaults, C |-> C, T |-> T,
   absent |-> {}]

\* The request failed in the transport layer: raise_for_status() raises.
Fault(reqs, C, T) == Outcome(TRUE, PyNone, reqs, 1, C, T)

\* The tracker refused the request (4xx): raise_for_status() raises.
Refused(reqs, C, T) == Outcome(TRUE, PyNone, reqs, 0, C, T)

\* The lookup for natural key k returned None.
Absent(k, reqs, C, T) == [Outcome(FALSE, PyNone, reqs, 0, C, T) EXCEPT !.absent = {k}]

\* The outcomes `outs` of a step that follows the step with outcome g.
Then(g, outs) ==
  {[h EXCEPT !.reqs = g.reqs \o @, !.nfaults = g.nfaults + @, !.absent = g.absent \cup @] :
     h \in outs}

\* get_project as it would be if every failure of the request were folded into
\* None, not only the 404.
GetProjectFoldsEveryFailure(C, T, project_key) ==
  LET req == Request("GET", "get_project", <<project_key>>, NoKey, FALSE)
      hit == EntityDict(<<project_key>>)
  IN  IF project_key \in DOMAIN C.project_cache
      THEN {Outcome(FALSE, C.project_cache[project_key], << >>, 0, C, T)}
      ELSE {[Absent(<<project_key>>, <<req>>, C, T) EXCEPT !.nfaults = 1],
            IF project_key \in T.projects
            THEN Outcome(FALSE, hit, <<req>>, 0,
                         [C EXCEPT !.project_cache = (project_key :> hit) @@ @], T)
            ELSE Absent(<<project_key>>, <<req>>, C, T)}

\* get_project.
GetProjectOutcomes(C, T, project_key) ==
  LET req == Request("GET", "get_project", <<project_key>>, NoKey, FALSE)
      hit == EntityDict(<<project_key>>)
  IN  IF project_key \in DOMAIN C.project_cache
      THEN {Outcome(FALSE, C.project_cache[project_key], << >>, 0, C, T)}
      ELSE {Fault(<<req>>, C, T),
            IF project_key \in T.projects
            THEN Outcome(FALSE, hit, <<req>>, 0,
                         [C EXCEPT !.project_cache = (project_key :> hit) @@ @], T)
            ELSE \* 404: folded into None
                 Absent(<<project_key>>, <<req>>, C, T)}

\* The POST of create_project, and the cache entry for its answer.
PostProject(C, T, project_key) ==
  LET req == Request("POST", "create_project", <<project_key>>, NoKey,
                     project_key \in T.projects)
      new == EntityDict(<<project_key>>)
  IN  IF Suppressed(C, "POST")
      THEN {Outcome(FALSE, EmptyDict, << >>, 0,
                    [C EXCEPT !.project_cache = (project_key :> EmptyDict) @@ @], T)}
      ELSE {Fault(<<req>>, C, T),
            IF project_key \in T.projects
            THEN Refused(<<req>>, C, T)
            ELSE Outcome(FALSE, new, <<req>>, 0,
                         [C EXCEPT !.project_cache = (project_key :> new) @@ @],
                         [T EXCEPT !.projects = @ \cup {project_key}])}

\* create_project: project_exists(), then get_project() again or the POST.
CreateProjectOutcomes(C, T, project_key) ==
  UNION {IF g.raised THEN {g}
         ELSE IF ~g.value.none THEN Then(g, GetProjectOutcomes(g.C, g.T, project_key))
         ELSE Then(g, PostProject(g.C, g.T, project_key))
         : g \in GetProjectOutcomes(C, T, project_key)}

\* The loop of get_issue_type_by_name, get_custom_field_by_name and
\* get_link_type_by_name over the tracker's list: every element up to the match
\* is cached.
RECURSIVE CacheUntil(_, _, _)
CacheUntil(cache, names, name) ==
  IF names = << >> THEN cache
  ELSE LET c == (Head(names) :> EntityDict(<<Head(names)>>)) @@ cache
       IN  IF Head(names) = name THEN c ELSE CacheUntil(c, Tail(names), name)

\* A lookup by name in a list the tracker returns, behind a cache.
NameLookup(cache, names, name, req) ==
  IF name \in DOMAIN cache
  THEN {[raised |-> FALSE, value |-> cache[name], reqs |-> << >>, nfaults |-> 0,
         cache |-> cache, absent |-> {}]}
  ELSE {[raised |-> TRUE, value |-> PyNone, reqs |-> <<req>>, nfaults |-> 1, cache |-> cache,
         absent |-> {}],
        [raised |-> FALSE,
         value |-> IF name \in Range(names) THEN EntityDict(<<name>>) ELSE PyNone,
         reqs |-> <<req>>, nfaults |-> 0, cache |-> CacheUntil(cache, names, name),
         absent |-> IF name \in Range(names) THEN {} ELSE {<<name>>}]}

\* get_issue_type_by_name.
GetIssueTypeOutcomes(C, T, name) ==
  {[Outcome(l.raised, l.value, l.reqs, l.nfaults, [C EXCEPT !.issue_type_cache = l.cache], T)
      EXCEPT !.absent = l.absent] :
     l \in NameLookup(C.issue_type_cache, T.types, name,
                      Request("GET", "get_issue_types", <<name>>, NoKey, FALSE))}

\* The names of the custom fields, in the tracker's order.
CustomFieldNames(fields) ==
  LET custom == SelectSeq(fields, LAMBDA f : f.custom)
  IN  [x \in 1..Len(custom) |-> custom[x].name]

\* get_custom_field_by_name.
GetCustomFieldOutcomes(C, T, name) ==
  {[Outcome(l.raised, l.value, l.reqs, l.nfaults, [C EXCEPT !.field_cache = l.cache], T)
      EXCEPT !.absent = l.absent] :
     l \in NameLookup(C.field_cache, CustomFieldNames(T.fields), name,
                      Request("GET", "get_fields", <<name>>, NoKey, FALSE))}

\* get_link_type_by_name.
GetLinkTypeOutcomes(C, T, name) ==
  {[Outcome(l.raised, l.value, l.reqs, l.nfaults, [C EXCEPT !.link_type_cache = l.cache], T)
      EXCEPT !.absent = l.absent] :
     l \in NameLookup(C.link_type_cache, T.linkTypes, name,
                      Request("GET", "get_issue_link_types", <<name>>, NoKey, FALSE))}

\* The POST of create_issue_type, and the cache entry for its answer.
PostIssueType(C, T, name) ==
  LET req == Request("POST", "create_issue_type", <<name>>, NoKey, name \in Range(T.types))
      new == EntityDict(<<name>>)
  IN  IF Suppressed(C, "POST")
      THEN {Outcome(FALSE, EmptyDict, << >>, 0,
                    [C EXCEPT !.issue_type_cache = (name :> EmptyDict) @@ @], T)}
      ELSE {Fault(<<req>>, C, T),
            Outcome(FALSE, new, <<req>>, 0,
                    [C EXCEPT !.issue_type_cache = (name :> new) @@ @],
                    [T EXCEPT !.types = Append(@, name)])}

\* create_issue_type: issue_type_exists(), then the cached dict or the POST.
CreateIssueTypeOutcomes(C, T, name) ==
  UNION {IF g.raised THEN {g}
         ELSE IF ~g.value.none THEN Then(g, GetIssueTypeOutcomes(g.C, g.T, name))
         ELSE Then(g, PostIssueType(g.C, g.T, name))
         : g \in GetIssueTypeOutcomes(C, T, name)}

\* The POST of create_custom_field, and the cache entry for its answer.
PostCustomField(C, T, name) ==
  LET req == Request("POST", "create_custom_field", <<name>>, NoKey,
                     name \in CustomNames(T.fields))
      new == EntityDict(<<name>>)
  IN  IF Suppressed(C, "POST")
      THEN {Outcome(FALSE, EmptyDict, << >>, 0,
                    [C EXCEPT !.field_cache = (name :> EmptyDict) @@ @], T)}
      ELSE {Fault(<<req>>, C, T),
            Outcome(FALSE, new, <<req>>, 0,
                    [C EXCEPT !.field_cache = (name :> new) @@ @],
                    [T EXCEPT !.fields = Append(@, [name |-> name, custom |-> TRUE])])}

\* create_custom_field: custom_field_exists(), then the cached dict or the POST.
CreateCustomFieldOutcomes(C, T, name) ==
  UNION {IF g.raised THEN {g}
         ELSE IF ~g.value.none THEN Then(g, GetCustomFieldOutcomes(g.C, g.T, name))
         ELSE Then(g, PostCustomField(g.C, g.T, name))
         : g \in GetCustomFieldOutcomes(C, T, name)}

\* get_version_by_name: GET /project/<key>/versions, then the first with that name.
GetVersionOutcomes(C, T, project_key, name) ==
  LET req == Request("GET", "get_project_versions", <<project_key, name>>, NoKey, FALSE)
  IN  {Fault(<<req>>, C, T),
       IF project_key \notin T.projects THEN Refused(<<req>>, C, T)
       ELSE IF <<project_key, name>> \in T.versions
       THEN Outcome(FALSE, EntityDict(<<project_key, name>>), <<req>>, 0, C, T)
       ELSE Absent(<<project_key, name>>, <<req>>, C, T)}

\* The POST of create_version.
PostVersion(C, T, project_key, name) ==
  LET req == Request("POST", "create_version", <<project_key, name>>, NoKey,
                     <<project_key, name>> \in T.versions)
  IN  IF Suppressed(C, "POST")
      THEN {Outcome(FALSE, EmptyDict, << >>, 0, C, T)}
      ELSE {Fault(<<req>>, C, T),
            Outcome(FALSE, EntityDict(<<project_key, name>>), <<req>>, 0, C,
                    [T EXCEPT !.versions = @ \cup {<<project_key, name>>}])}

\* create_version without its lookup: the POST at once.
CreateVersionBlind(C, T, project_key, name) == PostVersion(C, T, project_key, name)

\* create_version: get_version_by_name(), then the existing version or the POST.
CreateVersionOutcomes(C, T, project_key, name) ==
  UNION {IF g.raised \/ Truthy(g.value) THEN {g}
         ELSE Then(g, PostVersion(g.C, g.T, project_key, name))
         : g \in GetVersionOutcomes(C, T, project_key, name)}

\* The POST of create_issue.  The tracker refuses an issue for a project or of
\* an issue type it does not hold.
PostIssue(C, T, project_key, issue_type, summary, parent_key) ==
  LET req == Request("POST", "create_issue", <<project_key, issue_type, summary>>, parent_key,
                     IssuePresent(T.issues, project_key, issue_type, summary))
      new == NewIssue(T.id, project_key, issue_type, summary, parent_key)
  IN  IF Suppressed(C, "POST")
      THEN {Outcome(FALSE, EmptyDict, << >>, 0, C, T)}
      ELSE {Fault(<<req>>, C, T),
            IF project_key \in T.projects /\ issue_type \in Range(T.types)
            THEN Outcome(FALSE, CreatedDict(new.key), <<req>>, 0, C,
                         [T EXCEPT !.issues = @ \cup {new}, !.id = @ + 1])
            ELSE Refused(<<req>>, C, T)}

\* create_issue.  No lookup of the issue precedes the POST.  custom_fields is
\* the sequence of the custom field names given (none or one): each is resolved
\* to its id by get_custom_field_by_name before the POST.
CreateIssueOutcomes(C, T, project_key, issue_type, summary, parent_key, custom_fields) ==
  IF custom_fields = << >>
  THEN PostIssue(C, T, project_key, issue_type, summary, parent_key)
  ELSE UNION {IF g.raised THEN {g}
              ELSE Then(g, PostIssue(g.C, g.T, project_key, issue_type, summary, parent_key))
              : g \in GetCustomFieldOutcomes(C, T, Head(custom_fields))}

\* find_issue_by_summary builds this query.
SummaryJql(project_key, summary, issue_type) ==
  [project |-> project_key, text |-> Escape(summary), issuetype |-> issue_type]

\* FirstExact with `in` for `==`: the first candidate whose summary contains the
\* requested one.
RECURSIVE FirstContaining(_, _)
FirstContaining(issues, summary) ==
  IF issues = << >> THEN PyNone
  ELSE IF Contains(Head(issues).summary, summary) THEN Head(issues)
  ELSE FirstContaining(Tail(issues), summary)

\* find_issue_by_summary's loop: the first candidate with exactly this summary.
RECURSIVE FirstExact(_, _)
FirstExact(issues, summary) ==
  IF issues = << >> THEN PyNone
  ELSE IF Head(issues).summary = summary THEN Head(issues)
  ELSE FirstExact(Tail(issues), summary)

\* What find_issue_by_summary concludes from the page the search returned.
Found(page, project_key, issue_type, summary, reqs, C, T) ==
  LET r == FirstExact(page, summary)
  IN  [Outcome(FALSE, r, reqs, 0, C, T)
         EXCEPT !.absent = IF r.none THEN {<<project_key, issue_type, summary>>} ELSE {}]
      @@ [candidates |-> page]

\* find_issue_by_summary: search_issues() POSTs the query; `candidates` is what
\* the search returned.  In a dry run post() returns {} and
\* result.get("issues", []) is empty.
FindOutcomes(C, T, project_key, summary, issue_type) ==
  LET jql == SummaryJql(project_key, summary, issue_type)
      req == Request("POST", "search", <<project_key, issue_type, summary>>, NoKey, FALSE)
  IN  IF Suppressed(C, "POST")
      THEN {Found(<< >>, project_key, issue_type, summary, << >>, C, T)}
      ELSE IF project_key \notin T.projects
      THEN \* the tracker answers 400 to a query that names a project it does not hold
           {Refused(<<req>>, C, T) @@ [candidates |-> << >>]}
      ELSE {Fault(<<req>>, C, T) @@ [candidates |-> << >>]}
           \cup
           {Found(page, project_key, issue_type, summary, <<req>>, C, T) :
              page \in SearchResults(T.issues, jql, MaxResults)}

\* The tracker's issue with this key, as a set (empty when it holds none).
IssueByKey(T, issue_key) == {i \in T.issues : i.key = issue_key}

\* get_issue: the tracker's 404 is folded into None; any other failure of the
\* request (another status, no answer) raises.
GetIssueOutcomes(C, T, issue_key) ==
  LET req == Request("GET", "get_issue", <<issue_key>>, NoKey, FALSE)
      found == IssueByKey(T, issue_key)
  IN  {Fault(<<req>>, C, T),
       IF found # {} THEN Outcome(FALSE, FoundDict(CHOOSE i \in found : TRUE), <<req>>, 0, C, T)
       ELSE Outcome(FALSE, PyNone, <<req>>, 0, C, T)}

\* The POST of create_issue_link.
PostIssueLink(C, T, inward_issue, outward_issue, link_type) ==
  LET req == Request("POST", "create_issue_link", <<link_type, inward_issue, outward_issue>>,
                     NoKey, FALSE)
      link == [type |-> link_type, inward |-> inward_issue, outward |-> outward_issue]
  IN  IF Suppressed(C, "POST")
      THEN {Outcome(FALSE, EntityDict(NoKey), << >>, 0, C, T)}
      ELSE {Fault(<<req>>, C, T),
            IF IssueByKey(T, inward_issue) # {} /\ IssueByKey(T, outward_issue) # {}
            THEN Outcome(FALSE, EntityDict(NoKey), <<req>>, 0, C,
                         [T EXCEPT !.links = @ \cup {link}])
            ELSE Refused(<<req>>, C, T)}

\* create_issue_link: the link type is looked up by name; without it the method
\* returns False and sends nothing more.  value.none stands for False.
CreateIssueLinkOutcomes(C, T, inward_issue, outward_issue, link_type) ==
  UNION {IF g.raised THEN {g}
         ELSE IF ~Truthy(g.value) THEN {[g EXCEPT !.value = PyNone]}
         ELSE Then(g, PostIssueLink(g.C, g.T, inward_issue, outward_issue, link_type))
         : g \in GetLinkTypeOutcomes(C, T, link_type)}

\* The transitions the tracker lists for an issue: those of the tracker's
\* Constraint workflow that leave its status.
AvailableTransitions(T, issue) ==
  IF issue.type = ISSUE_TYPE_NAMES.constraint
  THEN {t \in T.workflow : t.from = issue.status}
  ELSE {}

\* get_transitions: value.key carries the names of the transitions listed.
GetTransitionsOutcomes(C, T, issue_key) ==
  LET req == Request("GET", "get_transitions", <<issue_key>>, NoKey, FALSE)
      found == IssueByKey(T, issue_key)
  IN  {Fault(<<req>>, C, T),
       IF found = {} THEN Refused(<<req>>, C, T)
       ELSE Outcome(FALSE,
                    EntityDict({t.name : t \in AvailableTransitions(T, CHOOSE i \in found : TRUE)}),
                    <<req>>, 0, C, T)}

\* The POST of transition_issue: the tracker moves the issue along the
\* transition of that name that leaves its status, and refuses when there is
\* none.
PostTransition(C, T, issue_key, transition_name) ==
  LET req == Request("POST", "transition", <<issue_key, transition_name>>, NoKey, FALSE)
      found == IssueByKey(T, issue_key)
      moved == UNION {{[i EXCEPT !.status = t.to] :
                         t \in {u \in AvailableTransitions(T, i) : u.name = transition_name}} :
                      i \in found}
  IN  IF Suppressed(C, "POST")
      THEN {Outcome(FALSE, EntityDict(NoKey), << >>, 0, C, T)}
      ELSE {Fault(<<req>>, C, T),
            IF moved = {} THEN Refused(<<req>>, C, T)
            ELSE Outcome(FALSE, EntityDict(NoKey), <<req>>, 0, C,
                         [T EXCEPT !.issues = (@ \ found) \cup moved])}

\* transition_issue as it would be if it posted the transition without
\* matching its name against the transitions listed.
TransitionIssueUnmatched(C, T, issue_key, transition_name) ==
  UNION {IF g.raised THEN {g}
         ELSE Then(g, PostTransition(g.C, g.T, issue_key, transition_name))
         : g \in GetTransitionsOutcomes(C, T, issue_key)}

\* transition_issue: GET the available transitions, POST the one with that
\* name; False when none has it.  value.none stands for False.
TransitionIssueOutcomes(C, T, issue_key, transition_name) ==
  UNION {IF g.raised THEN {g}
         ELSE IF transition_name \notin g.value.key THEN {[g EXCEPT !.value = PyNone]}
         ELSE Then(g, PostTransition(g.C, g.T, issue_key, transition_name))
         : g \in GetTransitionsOutcomes(C, T, issue_key)}

\* update_issue (set_fix_version): PUT /issue/<key>.
UpdateIssueOutcomes(C, T, issue_key) ==
  LET req == Request("PUT", "update_issue", <<issue_key>>, NoKey, FALSE)
  IN  IF Suppressed(C, "PUT") THEN {Outcome(FALSE, EmptyDict, << >>, 0, C, T)}
      ELSE {Fault(<<req>>, C, T),
            IF IssueByKey(T, issue_key) = {} THEN Refused(<<req>>, C, T)
            ELSE Outcome(FALSE, EmptyDict, <<req>>, 0, C, T)}

\* delete("/rest/api/2/issue/<key>"): DELETE, returns True.  The tracker
\* refuses it for an issue it does not hold and for a user without the
\* permission to delete issues.
DeleteIssueOutcomes(C, T, issue_key) ==
  LET req == Request("DELETE", "delete_issue", <<issue_key>>, NoKey, FALSE)
  IN  IF Suppressed(C, "DELETE") THEN {Outcome(FALSE, EntityDict(NoKey), << >>, 0, C, T)}
      ELSE {Fault(<<req>>, C, T),
            IF IssueByKey(T, issue_key) = {} \/ ~T.may_delete THEN Refused(<<req>>, C, T)
            ELSE Outcome(FALSE, EntityDict(NoKey), <<req>>, 0, C,
                         [T EXCEPT !.issues = @ \ IssueByKey(T, issue_key)])}

\* ------------------------------------------------------------------ HierarchyBuilder

\* _make_key.
MakeKey(project_key, issue_type, summary) == <<project_key, issue_type, summary>>

\* What is recorded of a find_issue_by_summary call: its arguments, whether the
\* search reached the tracker, whether it failed with a transport error, the
\* candidates the search returned, the result, and whether the tracker held an
\* issue with exactly that project, type and summary when it was called.
FindRecord(C, T, project_key, summary, issue_type, f) ==
  [called |-> TRUE, project |-> project_key, summary |-> summary, type |-> issue_type,
   dry |-> C.dry_run, raised |-> f.raised, fault |-> f.nfaults > 0, sent |-> f.reqs # << >>,
   candidates |-> f.candidates, result |-> f.value,
   present |-> IssuePresent(T.issues, project_key, issue_type, summary)]

NoFind ==
  [called |-> FALSE, project |-> "", summary |-> << >>, type |-> "", dry |-> FALSE,
   raised |-> FALSE, fault |-> FALSE, sent |-> FALSE, candidates |-> << >>,
   result |-> PyNone, present |-> FALSE]

\* The natural key a find_issue_by_summary call found absent (none when it
\* raised or found the issue).
AbsentBy(project_key, issue_type, summary, f) ==
  IF ~f.raised /\ ~Truthy(f.value) THEN {<<project_key, issue_type, summary>>} ELSE {}

\* _find_or_create_issue as it would be without the look into created_issues.
FindOrCreateWithoutCache(cache, C, T, project_key, issue_type, summary, parent_key) ==
  LET cache_key == MakeKey(project_key, issue_type, summary)
      base == [raised |-> FALSE, issue |-> PyNone, path |-> "cache", reqs |-> << >>,
               cache |-> cache, C |-> C, T |-> T, nfaults |-> 0, find |-> NoFind,
               absent |-> {}]
  IN  IF FALSE
      THEN {[base EXCEPT !.issue = cache[cache_key]]}
      ELSE UNION {
        LET fr == FindRecord(C, T, project_key, summary, issue_type, f)
            ab == AbsentBy(project_key, issue_type, summary, f)
        IN  IF f.raised
            THEN {[base EXCEPT !.raised = TRUE, !.path = "error", !.reqs = f.reqs,
                               !.nfaults = f.nfaults, !.find = fr]}
            ELSE IF Truthy(f.value)
            THEN {[base EXCEPT !.issue = f.value, !.path = "lookup", !.reqs = f.reqs,
                               !.cache = (cache_key :> f.value) @@ cache, !.find = fr]}
            ELSE {IF c.raised
                  THEN [base EXCEPT !.issue = PyNone, !.path = "error",
                                    !.reqs = f.reqs \o c.reqs, !.nfaults = c.nfaults,
                                    !.find = fr, !.absent = ab, !.C = c.C]
                  ELSE [base EXCEPT !.issue = c.value, !.path = "create",
                                    !.reqs = f.reqs \o c.reqs,
                                    !.cache = (cache_key :> c.value) @@ cache,
                                    !.C = c.C, !.T = c.T, !.find = fr, !.absent = ab] :
                  c \in CreateIssueOutcomes(C, T, project_key, issue_type, summary,
                                            parent_key, << >>)}
        : f \in FindOutcomes(C, T, project_key, summary, issue_type)}

\* What one _find_or_create_issue call can do.  `raised`: the exception of the
\* search left the method (only create_issue is inside the try); `issue`: what
\* it returned; `path`: "cache", "lookup", "create" or "error".
FindOrCreateOutcomes(cache, C, T, project_key, issue_type, summary, parent_key) ==
  LET cache_key == MakeKey(project_key, issue_type, summary)
      base == [raised |-> FALSE, issue |-> PyNone, path |-> "cache", reqs |-> << >>,
               cache |-> cache, C |-> C, T |-> T, nfaults |-> 0, find |-> NoFind,
               absent |-> {}]
  IN  IF cache_key \in DOMAIN cache
      THEN {[base EXCEPT !.issue = cache[cache_key]]}
      ELSE UNION {
        LET fr == FindRecord(C, T, project_key, summary, issue_type, f)
            ab == AbsentBy(project_key, issue_type, summary, f)
        IN  IF f.raised
            THEN {[base EXCEPT !.raised = TRUE, !.path = "error", !.reqs = f.reqs,
                               !.nfaults = f.nfaults, !.find = fr]}
            ELSE IF Truthy(f.value)
            THEN {[base EXCEPT !.issue = f.value, !.path = "lookup", !.reqs = f.reqs,
                               !.cache = (cache_key :> f.value) @@ cache, !.find = fr]}
            ELSE {IF c.raised
                  THEN [base EXCEPT !.issue = PyNone, !.path = "error",
                                    !.reqs = f.reqs \o c.reqs, !.nfaults = c.nfaults,
                                    !.find = fr, !.absent = ab, !.C = c.C]
                  ELSE [base EXCEPT !.issue = c.value, !.path = "create",
                                    !.reqs = f.reqs \o c.reqs,
                                    !.cache = (cache_key :> c.value) @@ cache,
                                    !.C = c.C, !.T = c.T, !.find = fr, !.absent = ab] :
                  c \in CreateIssueOutcomes(C, T, project_key, issue_type, summary,
                                            parent_key, << >>)}
        : f \in FindOutcomes(C, T, project_key, summary, issue_type)}

\* create_strategic_objective, create_portfolio_epic, create_business_outcome and
\* create_feature update the counters of their level the same way.
CountIssue(st, level, issue) ==
  IF Truthy(issue)
  THEN IF "key" \in issue.has
       THEN [st EXCEPT ![level].created = @ + 1]
       ELSE [st EXCEPT ![level].exists = @ + 1]
  ELSE [st EXCEPT ![level].errors = @ + 1]

\* HierarchyBuilder.__init__: stats.
ZeroStats == [l \in {LevelName[d] : d \in 1..4} |-> [created |-> 0, exists |-> 0, errors |-> 0]]

\* The seed record at loop indices p.
NodeAt(p) ==
  IF Len(p) = 1 THEN HIERARCHY[p[1]].strategic_objective
  ELSE IF Len(p) = 2 THEN HIERARCHY[p[1]].portfolio_epics[p[2]]
  ELSE IF Len(p) = 3 THEN HIERARCHY[p[1]].portfolio_epics[p[2]].business_outcomes[p[3]]
  ELSE HIERARCHY[p[1]].portfolio_epics[p[2]].business_outcomes[p[3]].features[p[4]]

\* The list the loop one level below p iterates over.
ChildrenOf(p) ==
  IF Len(p) = 0 THEN HIERARCHY
  ELSE IF Len(p) = 1 THEN HIERARCHY[p[1]].portfolio_epics
  ELSE IF Len(p) = 2 THEN NodeAt(p).business_outcomes
  ELSE IF Len(p) = 3 THEN NodeAt(p).features
  ELSE << >>

\* The loop indices of the enclosing loop.
ParentPos(p) == SubSeq(p, 1, Len(p) - 1)

\* `continue`, or the end of a loop body: the next element of the innermost loop
\* that has one; << >> when the outermost loop is over.
RECURSIVE NextSibling(_)
NextSibling(p) ==
  IF p = << >> THEN << >>
  ELSE IF p[Len(p)] < Len(ChildrenOf(ParentPos(p)))
       THEN [p EXCEPT ![Len(p)] = @ + 1]
       ELSE NextSibling(ParentPos(p))

\* After a node that was found or created: into the loop over its children.
Descend(p) == IF Len(ChildrenOf(p)) > 0 THEN p \o <<1>> ELSE NextSibling(p)

\* All loop indices of the seed tree.
RECURSIVE PositionsBelow(_)
PositionsBelow(p) ==
  UNION {{p \o <<x>>} \cup PositionsBelow(p \o <<x>>) : x \in 1..Len(ChildrenOf(p))}

AllPositions == PositionsBelow(<< >>)

\* build_hierarchy giving so_key as the parent_key at every level.
SoKeyArg(keys, level) == IF level = 1 THEN NoKey ELSE keys[1]

\* The parent_key argument build_hierarchy gives create_<level>: none for a
\* Strategic Objective, else so_key, pe_key or bo_key of the enclosing loops.
ParentKeyArg(keys, level) == IF level = 1 THEN NoKey ELSE keys[level - 1]

\* build_hierarchy without its `continue`: into the children whatever was returned.
AlwaysDescend(p, issue) == Descend(p)

\* Where build_hierarchy goes after create_<level> returned issue at p.
AfterNode(p, issue) == IF Truthy(issue) THEN Descend(p) ELSE NextSibling(p)

\* ------------------------------------------------------------------ setup_projects

\* `others` is a record of the state of the project, version and constraint
\* builders:
\*   p_idx      setup_projects: index in PROJECTS of the loop
\*   p_results  setup_projects: the "status" of each result appended so far
\*   v_pos      build_versions: <<index in PROJECTS, index in VERSIONS>>
\*   v_stats    VersionBuilder.stats
\*   c_idx      build_constraints: index in CONSTRAINTS of the loop
\*   c_stage    "create": before create_constraint; "link": before
\*              link_constraint_to_target
\*   c_key      constraint_key of the loop body
\*   c_stats    ConstraintBuilder.stats
\*   t_idx      index in PROJECTS of the project teardown_all handles next
\*   t_results  per project handled: "deleted", "failed" or "skipped"
\*   t_stats    JiraTeardown.stats: the issue counters
\*   t_iter     iterations of delete_all_issues_in_project's loop so far
\*   t_batch    the last of them: the batch it fetched, how many issues of it
\*              it deleted, and whether the loop went on after it
\*   c_done     per constraint record handled in this run: what create_constraint
\*              returned, whether it raised, the requests it sent, whether it
\*              counted the record as created, and its status walk
NoBatch == [issues |-> << >>, deleted |-> 0, again |-> FALSE]

NewBuilders ==
  [p_idx |-> 1, p_results |-> << >>,
   v_pos |-> <<1, 1>>, v_stats |-> [created |-> 0, exists |-> 0, errors |-> 0],
   c_idx |-> 1, c_stage |-> "create", c_key |-> NoKey,
   c_stats |-> [created |-> 0, exists |-> 0, errors |-> 0,
                links_created |-> 0, links_failed |-> 0],
   c_done |-> << >>,
   t_idx |-> 1, t_results |-> << >>,
   t_stats |-> [issues_deleted |-> 0, issues_failed |-> 0],
   t_iter |-> 0, t_batch |-> NoBatch]

\* The "status" setup_projects records for one project.
ProjectStatus(o) ==
  IF o.raised THEN "error" ELSE IF Truthy(o.value) THEN "created" ELSE "exists"

\* ------------------------------------------------------------------ VersionBuilder

\* VersionBuilder.create_version: the counters after client.create_version.
CountVersion(st, o) ==
  IF o.raised THEN [st EXCEPT !.errors = @ + 1]
  ELSE IF Truthy(o.value)
       THEN IF "id" \in o.value.has
            THEN [st EXCEPT !.created = @ + 1]
            ELSE [st EXCEPT !.exists = @ + 1]
  ELSE st

\* build_versions: the loop indices after <<i, j>>; << >> when both loops are over.
NextVersionPos(p) ==
  IF p[2] < Len(VERSIONS) THEN <<p[1], p[2] + 1>>
  ELSE IF p[1] < Len(PROJECTS) THEN <<p[1] + 1, 1>>
  ELSE << >>

\* ------------------------------------------------------------------ ConstraintBuilder

\* _transition_to_status: transition_issue for each name of the path; an
\* exception ends the walk and is swallowed, the returned bool is not looked at.
\* `walk` lists the calls of transition_issue that were made: the name, what was
\* returned and whether it raised.
RECURSIVE TransitionToStatusOutcomes(_, _, _, _)
TransitionToStatusOutcomes(C, T, issue_key, transitions) ==
  IF transitions = << >> THEN {[walk |-> << >>] @@ Outcome(FALSE, PyNone, << >>, 0, C, T)}
  ELSE UNION {LET call == [name |-> Head(transitions), raised |-> g.raised,
                           matched |-> ~g.raised /\ Truthy(g.value)]
              IN  IF g.raised THEN {[walk |-> <<call>>] @@ [g EXCEPT !.raised = FALSE]}
                  ELSE {[h EXCEPT !.walk = <<call>> \o @] :
                          h \in Then(g, TransitionToStatusOutcomes(g.C, g.T, issue_key,
                                                                   Tail(transitions)))}
              : g \in TransitionIssueOutcomes(C, T, issue_key, Head(transitions))}

\* An outcome together with the builder's counters after it and the
\* find_issue_by_summary call it made.
WithStats(o, st, find) ==
  [raised |-> o.raised, value |-> o.value, reqs |-> o.reqs, nfaults |-> o.nfaults,
   C |-> o.C, T |-> o.T, absent |-> o.absent, stats |-> st, find |-> find,
   walk |-> IF "walk" \in DOMAIN o THEN o.walk ELSE << >>]

\* create_constraint as it would be if a constraint found already existing were
\* moved to the status its record declares.
CreateConstraintWalksExisting(C, T, st, constraint_data) ==
  LET project_key == constraint_data.blocks.project
      summary == constraint_data.summary
      ctype == ISSUE_TYPE_NAMES.constraint
      path == IF constraint_data.status # "Identified"
              THEN TransitionPath(constraint_data.status) ELSE << >>
  IN  UNION {
        LET fr == FindRecord(C, T, project_key, summary, ctype, f)
        IN  IF f.raised THEN {WithStats(f, st, fr)}
            ELSE IF Truthy(f.value)
            THEN {WithStats([w EXCEPT !.value = f.value],
                            [st EXCEPT !.exists = @ + 1], fr) :
                    w \in Then(f, TransitionToStatusOutcomes(f.C, f.T, GetKey(f.value), path))}
            ELSE UNION {
              IF c.raised
              THEN {WithStats([c EXCEPT !.raised = FALSE, !.value = PyNone],
                              [st EXCEPT !.errors = @ + 1], fr)}
              ELSE IF Truthy(c.value)
              THEN {WithStats([w EXCEPT !.value = c.value],
                              [st EXCEPT !.created = @ + 1], fr) :
                      w \in Then(c, TransitionToStatusOutcomes(c.C, c.T, GetKey(c.value), path))}
              ELSE {WithStats(c, st, fr)}
              : c \in Then(f, CreateIssueOutcomes(f.C, f.T, project_key, ctype, summary,
                                                  NoKey, <<MitigationPlan>>))}
        : f \in FindOutcomes(C, T, project_key, summary, ctype)}

\* create_constraint.  The search is outside the try: its exception leaves the
\* method.  create_issue and the status walk are inside.
CreateConstraintOutcomes(C, T, st, constraint_data) ==
  LET project_key == constraint_data.blocks.project
      summary == constraint_data.summary
      ctype == ISSUE_TYPE_NAMES.constraint
  IN  UNION {
        LET fr == FindRecord(C, T, project_key, summary, ctype, f)
        IN  IF f.raised THEN {WithStats(f, st, fr)}
            ELSE IF Truthy(f.value)
            THEN {WithStats(f, [st EXCEPT !.exists = @ + 1], fr)}
            ELSE UNION {
              IF c.raised
              THEN {WithStats([c EXCEPT !.raised = FALSE, !.value = PyNone],
                              [st EXCEPT !.errors = @ + 1], fr)}
              ELSE IF Truthy(c.value)
              THEN {WithStats([w EXCEPT !.value = c.value],
                              [st EXCEPT !.created = @ + 1], fr) :
                      w \in Then(c, TransitionToStatusOutcomes(
                                      c.C, c.T, GetKey(c.value),
                                      IF constraint_data.status # "Identified"
                                      THEN TransitionPath(constraint_data.status)
                                      ELSE << >>))}
              ELSE {WithStats(c, st, fr)}
              : c \in Then(f, CreateIssueOutcomes(f.C, f.T, project_key, ctype, summary,
                                                  NoKey, <<MitigationPlan>>))}
        : f \in FindOutcomes(C, T, project_key, summary, ctype)}

\* _find_target_issue: type_mapping.get(issue_type, issue_type).
TargetType(issue_type) ==
  IF issue_type = "Business Outcome" THEN ISSUE_TYPE_NAMES.business_outcome
  ELSE IF issue_type = "Feature" THEN ISSUE_TYPE_NAMES.feature
  ELSE issue_type

\* link_constraint_to_target as it would be if a target that was not found
\* were counted as a created link.
LinkCountsAbsentAsCreated(C, T, st, constraint_key, constraint_data) ==
  LET b == constraint_data.blocks
  IN  UNION {
        LET fr == FindRecord(C, T, b.project, b.summary, TargetType(b.type), f)
        IN  IF f.raised THEN {WithStats(f, st, fr)}
            ELSE IF ~Truthy(f.value)
            THEN {WithStats(f, [st EXCEPT !.links_created = @ + 1], fr)}
            ELSE {IF l.raised
                  THEN WithStats([l EXCEPT !.raised = FALSE, !.value = PyNone],
                                 [st EXCEPT !.links_failed = @ + 1], fr)
                  ELSE WithStats([l EXCEPT !.value = EntityDict(NoKey)],
                                 [st EXCEPT !.links_created = @ + 1], fr) :
                  l \in Then(f, CreateIssueLinkOutcomes(f.C, f.T, GetKey(f.value),
                                                        constraint_key, "Blocks"))}
        : f \in FindOutcomes(C, T, b.project, b.summary, TargetType(b.type))}

\* link_constraint_to_target as it would be with the two roles of the link
\* exchanged: the constraint as inward issue, the target as outward issue.
LinkSwapsRoles(C, T, st, constraint_key, constraint_data) ==
  LET b == constraint_data.blocks
  IN  UNION {
        LET fr == FindRecord(C, T, b.project, b.summary, TargetType(b.type), f)
        IN  IF f.raised THEN {WithStats(f, st, fr)}
            ELSE IF ~Truthy(f.value)
            THEN {WithStats(f, [st EXCEPT !.links_failed = @ + 1], fr)}
            ELSE {IF l.raised
                  THEN WithStats([l EXCEPT !.raised = FALSE, !.value = PyNone],
                                 [st EXCEPT !.links_failed = @ + 1], fr)
                  ELSE WithStats([l EXCEPT !.value = EntityDict(NoKey)],
                                 [st EXCEPT !.links_created = @ + 1], fr) :
                  l \in Then(f, CreateIssueLinkOutcomes(f.C, f.T, constraint_key,
                                                        GetKey(f.value), "Blocks"))}
        : f \in FindOutcomes(C, T, b.project, b.summary, TargetType(b.type))}

\* link_constraint_to_target as it would be if it sent nothing for a link the
\* tracker already has.
LinkSkipsExistingLink(C, T, st, constraint_key, constraint_data) ==
  LET b == constraint_data.blocks
  IN  UNION {
        LET fr == FindRecord(C, T, b.project, b.summary, TargetType(b.type), f)
        IN  IF f.raised THEN {WithStats(f, st, fr)}
            ELSE IF ~Truthy(f.value)
            THEN {WithStats(f, [st EXCEPT !.links_failed = @ + 1], fr)}
            ELSE IF [type |-> "Blocks", inward |-> GetKey(f.value), outward |-> constraint_key]
                      \in f.T.links
            THEN {WithStats(f, [st EXCEPT !.links_created = @ + 1], fr)}
            ELSE {IF l.raised
                  THEN WithStats([l EXCEPT !.raised = FALSE, !.value = PyNone],
                                 [st EXCEPT !.links_failed = @ + 1], fr)
                  ELSE WithStats([l EXCEPT !.value = EntityDict(NoKey)],
                                 [st EXCEPT !.links_created = @ + 1], fr) :
                  l \in Then(f, CreateIssueLinkOutcomes(f.C, f.T, GetKey(f.value),
                                                        constraint_key, "Blocks"))}
        : f \in FindOutcomes(C, T, b.project, b.summary, TargetType(b.type))}

\* link_constraint_to_target.  The search for the target is outside the try;
\* what create_issue_link returns is not looked at.
LinkConstraintOutcomes(C, T, st, constraint_key, constraint_data) ==
  LET b == constraint_data.blocks
  IN  UNION {
        LET fr == FindRecord(C, T, b.project, b.summary, TargetType(b.type), f)
        IN  IF f.raised THEN {WithStats(f, st, fr)}
            ELSE IF ~Truthy(f.value)
            THEN {WithStats(f, [st EXCEPT !.links_failed = @ + 1], fr)}
            ELSE {IF l.raised
                  THEN WithStats([l EXCEPT !.raised = FALSE, !.value = PyNone],
                                 [st EXCEPT !.links_failed = @ + 1], fr)
                  ELSE WithStats([l EXCEPT !.value = EntityDict(NoKey)],
                                 [st EXCEPT !.links_created = @ + 1], fr) :
                  l \in Then(f, CreateIssueLinkOutcomes(f.C, f.T, GetKey(f.value),
                                                        constraint_key, "Blocks"))}
        : f \in FindOutcomes(C, T, b.project, b.summary, TargetType(b.type))}

\* ------------------------------------------------------------------ direct calls

\* What is recorded of a gateway operation that was called directly: its name
\* and natural key, whether the tracker held the entity when it was called,
\* whether it raised, what it returned, the requests it sent and how many of
\* them failed in the transport layer.
CallRecord(op, key, present, o) ==
  [op |-> op, key |-> key, present |-> present, raised |-> o.raised, value |-> o.value,
   reqs |-> o.reqs, nfaults |-> o.nfaults]

NoCall == [op |-> "", key |-> NoKey, present |-> FALSE, raised |-> FALSE, value |-> PyNone,
           reqs |-> << >>, nfaults |-> 0]

\* ------------------------------------------------------------------ JiraTeardown

\* delete_all_issues_in_project: batch_size, 50 in the code, scaled to the
\* number of issues of the trackers considered.
BatchSize == 2

\* The keys of a project's issues, newest first (ORDER BY created DESC): the
\* tracker numbers issues as it creates them.
RECURSIVE NewestFirst(_)
NewestFirst(keys) ==
  IF keys = {} THEN << >>
  ELSE LET k == CHOOSE x \in keys : \A y \in keys : y[2] <= x[2]
       IN  <<k>> \o NewestFirst(keys \ {k})

FirstN(seq, n) == IF Len(seq) <= n THEN seq ELSE SubSeq(seq, 1, n)

\* search_issues('project = <key> ORDER BY created DESC', max_results): a POST,
\* so a dry run gets the mock answer, which has no issues.  `issues` is the
\* list returned.
SearchProjectOutcomes(C, T, project_key, max_results) ==
  LET req == Request("POST", "search_issues", <<project_key>>, NoKey, FALSE)
      keys == {i.key : i \in {j \in T.issues : j.project = project_key}}
  IN  IF Suppressed(C, "POST")
      THEN {[issues |-> << >>] @@ Outcome(FALSE, EmptyDict, << >>, 0, C, T)}
      ELSE {[issues |-> << >>] @@ Fault(<<req>>, C, T),
            IF project_key \in T.projects
            THEN [issues |-> FirstN(NewestFirst(keys), max_results)]
                 @@ Outcome(FALSE, EmptyDict, <<req>>, 0, C, T)
            ELSE [issues |-> << >>] @@ Refused(<<req>>, C, T)}

\* The for loop of delete_all_issues_in_project: a delete that raises is
\* counted as failed and the loop goes on.  `deleted` and `failed` are what the
\* loop adds to issues_deleted and issues_failed.
RECURSIVE DeleteEachOutcomes(_, _, _)
DeleteEachOutcomes(C, T, keys) ==
  IF keys = << >>
  THEN {[deleted |-> 0, failed |-> 0] @@ Outcome(FALSE, PyNone, << >>, 0, C, T)}
  ELSE UNION {{[h EXCEPT !.deleted = @ + (IF d.raised THEN 0 ELSE 1),
                         !.failed = @ + (IF d.raised THEN 1 ELSE 0)] :
                 h \in {x \in Then(d, DeleteEachOutcomes(d.C, d.T, Tail(keys))) :
                          x.nfaults <= MaxFaults}}
              : d \in DeleteIssueOutcomes(C, T, Head(keys))}

\* One iteration of the while loop of delete_all_issues_in_project: search a
\* batch and delete its issues.  `again`: the loop goes on, which it does
\* unless the search failed, found nothing or found fewer than batch_size
\* issues.  `issues` is the batch.
DeleteBatchOutcomes(C, T, project_key) ==
  UNION {IF s.raised \/ s.issues = << >>
         THEN {[deleted |-> 0, failed |-> 0, again |-> FALSE]
               @@ [s EXCEPT !.raised = FALSE]}
         ELSE {[again |-> Len(s.issues) >= BatchSize, issues |-> s.issues] @@ d :
                 d \in Then(s, DeleteEachOutcomes(s.C, s.T, s.issues))}
         : s \in SearchProjectOutcomes(C, T, project_key, BatchSize)}

\* The iterations of the loop of delete_all_issues_in_project in which at most
\* `budget` requests fail in the transport layer.
RECURSIVE DeleteLoopOutcomes(_, _, _, _)
DeleteLoopOutcomes(C, T, project_key, budget) ==
  UNION {IF ~b.again THEN {b}
         ELSE {[h EXCEPT !.deleted = @ + b.deleted, !.failed = @ + b.failed] :
                 h \in Then(b, DeleteLoopOutcomes(b.C, b.T, project_key,
                                                  budget - b.nfaults))}
         : b \in {x \in DeleteBatchOutcomes(C, T, project_key) : x.nfaults <= budget}}

\* delete_all_issues_in_project.  It never raises.
DeleteAllIssuesOutcomes(C, T, project_key) ==
  DeleteLoopOutcomes(C, T, project_key, MaxFaults)

\* delete("/rest/api/2/project/<key>"): the tracker drops the project with its
\* issues, their links and its versions.  The client's caches are not touched.
DeleteProjectRequest(C, T, project_key) ==
  LET req == Request("DELETE", "delete_project", <<project_key>>, NoKey,
                     project_key \in T.projects)
      gone == {i.key : i \in {j \in T.issues : j.project = project_key}}
  IN  IF Suppressed(C, "DELETE") THEN {Outcome(FALSE, EntityDict(NoKey), << >>, 0, C, T)}
      ELSE {Fault(<<req>>, C, T),
            IF project_key \notin T.projects THEN Refused(<<req>>, C, T)
            ELSE Outcome(FALSE, EntityDict(NoKey), <<req>>, 0, C,
                         [T EXCEPT !.projects = @ \ {project_key},
                                   !.issues = {i \in @ : i.project # project_key},
                                   !.links = {l \in @ : l.inward \notin gone
                                                        /\ l.outward \notin gone},
                                   !.versions = {v \in @ : v[1] # project_key}])}

\* JiraTeardown.delete_project: the issues, then the project; every exception
\* is caught and counted.  value: True (deleted) or False.
DeleteProjectOutcomes(C, T, project_key) ==
  UNION {{[deleted |-> a.deleted, failed |-> a.failed]
            @@ (IF p.raised THEN [p EXCEPT !.raised = FALSE, !.value = PyNone] ELSE p) :
            p \in Then(a, DeleteProjectRequest(a.C, a.T, project_key))}
         : a \in DeleteAllIssuesOutcomes(C, T, project_key)}

\* One iteration of teardown_all's loop: project_exists, which is outside any
\* try, then delete_project.  `result`: where the project is listed.
TeardownProjectOutcomes(C, T, project_key) ==
  UNION {IF g.raised THEN {[result |-> "raised", deleted |-> 0, failed |-> 0] @@ g}
         ELSE IF g.value.none
         THEN {[result |-> "skipped", deleted |-> 0, failed |-> 0] @@ g}
         ELSE {[result |-> IF Truthy(p.value) THEN "deleted" ELSE "failed"] @@ p :
                 p \in Then(g, DeleteProjectOutcomes(g.C, g.T, project_key))}
         : g \in GetProjectOutcomes(C, T, project_key)}

\* One iteration of teardown_issues_only's loop: project_exists, outside any
\* try, then delete_all_issues_in_project.
CleanProjectOutcomes(C, T, project_key) ==
  UNION {IF g.raised THEN {[result |-> "raised", deleted |-> 0, failed |-> 0] @@ g}
         ELSE IF g.value.none
         THEN {[result |-> "skipped", deleted |-> 0, failed |-> 0] @@ g}
         ELSE {[result |-> "cleaned"] @@ a :
                 a \in Then(g, DeleteAllIssuesOutcomes(g.C, g.T, project_key))}
         : g \in GetProjectOutcomes(C, T, project_key)}

\* ------------------------------------------------------------------ main

\* The order in which main() runs the phases it was asked for.
PhaseOrder == <<"projects", "hierarchy", "versions", "constraints">>

\* --all.
AllPhases == {PhaseOrder[x] : x \in 1..Len(PhaseOrder)}

\* The command lines considered: one phase, or --all.
ArgsMenu == {{ph} : ph \in AllPhases} \cup {AllPhases}

\* The teardown options of the command line.
TeardownFlags == {"teardown", "teardown_all", "rebuild"}

\* The command lines that tear down first: --teardown, --teardown-all or
\* --rebuild (the last alone or with --teardown-all), with or without --force.
TeardownMenu ==
  {t \cup f : t \in {{"teardown"}, {"teardown_all"}, {"rebuild"}, {"teardown_all", "rebuild"}},
              f \in {{}, {"force"}}}

\* main(): args.teardown or args.teardown_all or args.rebuild.
Tearing(a) == a \cap TeardownFlags # {}

\* What the user can type at the confirmation prompt; "^C" is the interruption
\* of input().  NotAsked: there was no prompt.
Answers == {"yes", "YES", "no", "DELETE", "delete", "^C"}
NotAsked == ""

\* str.lower() on the answers.
Lower(text) ==
  CASE text = "YES" -> "yes"
    [] text = "DELETE" -> "delete"
    [] OTHER -> text

\* A prompt that takes every answer for a confirmation.
ConfirmsAnything(a, answer) == TRUE

\* The answer lets the teardown go on: 'DELETE' as typed when projects are
\* deleted too, 'yes' in any letter case otherwise.
Confirms(a, answer) ==
  IF "teardown_all" \in a THEN answer = "DELETE" ELSE Lower(answer) = "yes"

\* The setup phases a command line asks for: --rebuild asks for all of them.
Requested(a) == IF "rebuild" \in a THEN AllPhases ELSE a \cap AllPhases

PhaseIndex(phase) == CHOOSE x \in 1..Len(PhaseOrder) : PhaseOrder[x] = phase

\* The first requested phase after position x of PhaseOrder; "idle": main returns.
RECURSIVE PhaseAfter(_, _)
PhaseAfter(x, a) ==
  IF x >= Len(PhaseOrder) THEN "idle"
  ELSE IF PhaseOrder[x + 1] \in a THEN PhaseOrder[x + 1]
  ELSE PhaseAfter(x + 1, a)

\* Where main() goes after the connection test.
FirstStep(a) == IF Tearing(a) THEN "teardown" ELSE PhaseAfter(0, Requested(a))

NoPhases == [started |-> {}, printed |-> {}]

NoRun == [ended |-> FALSE, args |-> {}, dry |-> FALSE, exit_code |-> -1,
          stats |-> ZeroStats, issues |-> {}]

\* main() leaves `phase`: with code 0 run_<phase>() prints the phase's summary,
\* main() goes on to the next requested phase and returns 0 after the last; an
\* exception (code 1) or interruption (code 130) leaves run_<phase>() before
\* the summary and makes main() return at once.
\* The first run's end is remembered.
Leave(phase, code) ==
  LET nxt == IF code = 0 THEN PhaseAfter(PhaseIndex(phase), Requested(args)) ELSE "idle"
  IN  /\ pc' = nxt
      /\ exit_code' = IF nxt = "idle" THEN code ELSE exit_code
      /\ phases' = [started |-> phases.started \cup ({nxt} \ {"idle"}),
                    printed |-> phases.printed \cup (IF code = 0 THEN {phase} ELSE {})]
      /\ firstRun' = IF nxt = "idle" /\ run = 1
                     THEN [ended |-> TRUE, args |-> args, dry |-> client.dry_run,
                           exit_code |-> code, stats |-> stats', issues |-> tracker'.issues]
                     ELSE firstRun

\* What every remote call of a builder step does to the tracker, the client,
\* the request log and the fault count.
Remote(o) ==
  /\ faults + o.nfaults <= MaxFaults
  /\ faults' = faults + o.nfaults
  /\ tracker' = o.T
  /\ client' = o.C
  /\ sent' = sent \o o.reqs
  /\ absent' = absent \cup o.absent

\* Issues that other users of the tracker created: their summaries contain a
\* seed Feature's summary, as "Deploy gate v2" contains "Deploy gate".
ForeignSuffix == <<"v2", "v3", "v4", "v5">>

ForeignIssue(x) ==
  [key |-> <<"DEVEX", x>>, project |-> "DEVEX", type |-> ISSUE_TYPE_NAMES.feature,
   summary |-> <<"Environment", "request", "portal", ForeignSuffix[x]>>, parent |-> NoKey,
   status |-> "Open"]

ProjectSet == {PROJECTS[x] : x \in 1..Len(PROJECTS)}

\* The tracker before the first run: without the seed projects, or with them
\* and some foreign issues; with or without the Constraint issue type, the
\* Mitigation Plan field, the Blocks link type and a first fix version; with the
\* Constraint workflow of config.py or with another one.
Trackers ==
  {LET configured == setup # "none"
   IN  [projects |-> ps,
        issues |-> IF ps = {} THEN {} ELSE {ForeignIssue(x) : x \in 1..n},
        versions |-> IF configured /\ ps # {} THEN {<<PROJECTS[1], VERSIONS[1]>>} ELSE {},
        types |-> LevelType \o (IF configured THEN <<ISSUE_TYPE_NAMES.constraint>> ELSE << >>),
        fields |-> <<[name |-> "Summary", custom |-> FALSE]>>
                   \o (IF configured THEN <<[name |-> MitigationPlan, custom |-> TRUE]>>
                       ELSE << >>),
        linkTypes |-> IF setup = "all" THEN <<"Blocks">> ELSE << >>,
        workflow |-> IF configured THEN w ELSE {},
        links |-> {},
        may_delete |-> TRUE,
        id |-> (IF ps = {} THEN 0 ELSE n) + 1] :
     ps \in {{}, ProjectSet}, n \in 0..MaxForeign, setup \in {"none", "no link type", "all"},
     w \in {CONSTRAINT_WORKFLOW, OtherWorkflow}}

\* The connection settings main() can find: all three set, or one of them not
\* in the environment ("absent") or there with the value "" ("empty").
Settings == {"base_url", "username", "token"}

AllSet == [k \in Settings |-> "set"]

Configs ==
  {c \in [Settings -> {"absent", "empty", "set"}] :
     Cardinality({k \in Settings : c[k] # "set"}) <= 1}

\* main()'s validation: a setting that JIRA_CONFIG holds as "" is asked for
\* again with get_required_env, which exits only when os.getenv returns None.
Validates(c) == \A k \in Settings : c[k] # "absent"

\* The connection test can send its request (the URL has a host) and the
\* tracker accepts the token.
Usable(c) == Validates(c) /\ c.base_url = "set" /\ c.token = "set"

Init ==
  /\ tracker \in Trackers
  /\ atStart = tracker
  /\ sent = << >>
  /\ client = JiraClient(FALSE)
  /\ created_issues = << >>
  /\ stats = ZeroStats
  /\ pos = << >>
  /\ parent_keys = <<NoKey, NoKey, NoKey>>
  /\ visited = << >>
  /\ others = NewBuilders
  /\ pc = "idle"
  /\ args = {}
  /\ phases = NoPhases
  /\ config = AllSet
  /\ run = 0
  /\ exit_code = -1
  /\ interrupted = FALSE
  /\ confirm = NotAsked
  /\ faults = 0
  /\ lastFind = NoFind
  /\ lastCall = NoCall
  /\ absent = {}
  /\ firstRun = NoRun

\* What main() has when an exception leaves it: no return value.
NoReturn == -2

\* How the connection test of main() can end: the GET returns, it fails (caught
\* in test_connection, main() returns 1), or the user interrupts it (caught
\* nowhere: the KeyboardInterrupt leaves main()).
ConnectionTests == {"ok", "failed", "interrupted"}

\* main() is started with one of the command lines of `menu`, with or without
\* --dry-run.  With a setting absent it returns 1 at once.  Otherwise a new
\* JiraClient and the connection test: a GET, sent in a dry run too, that
\* requests cannot send without a base URL and the tracker refuses without a
\* token.  When the test succeeds and a teardown is asked for without --force
\* and not in a dry run, the user is asked to confirm: main() returns 0 when
\* the answer does not confirm and 130 when the prompt is interrupted.  Then
\* the teardown or the first requested phase starts, with new builders.
StartRun(menu) ==
  /\ pc = "idle"
  /\ run < MaxRuns
  /\ \E a \in menu, d \in BOOLEAN, c \in Configs, test \in ConnectionTests,
        answer \in Answers \cup {NotAsked} :
       LET asked == test = "ok" /\ Tearing(a) /\ "force" \notin a /\ ~d
           go == test = "ok" /\ (asked => Confirms(a, answer))
           code == IF test = "failed" THEN 1
                   ELSE IF test = "interrupted" THEN NoReturn
                   ELSE IF answer = "^C" THEN 130
                   ELSE 0
           disturbed == c # AllSet \/ test # "ok"
       IN  /\ ~Usable(c) => test = "failed"
           /\ c # AllSet => test # "interrupted"
           /\ asked <=> answer # NotAsked
           /\ disturbed => faults < MaxFaults
           /\ faults' = IF disturbed THEN faults + 1 ELSE faults
           /\ interrupted' = (test = "interrupted" \/ answer = "^C")
           /\ confirm' = answer
           /\ args' = a
           /\ config' = c
           /\ client' = IF Validates(c) THEN JiraClient(d) ELSE client
           /\ sent' = IF Validates(c) /\ c.base_url = "set"
                      THEN <<Request("GET", "myself", << >>, NoKey, FALSE)>>
                      ELSE << >>
           /\ pc' = IF go THEN FirstStep(a) ELSE "idle"
           /\ phases' = [NoPhases EXCEPT
                           !.started = IF go THEN {FirstStep(a)} \cap AllPhases ELSE {}]
           /\ exit_code' = IF go THEN -1 ELSE code
           /\ pos' = IF go /\ "hierarchy" \in Requested(a) THEN <<1>> ELSE << >>
           /\ firstRun' = IF ~go /\ run = 0
                          THEN [ended |-> TRUE, args |-> a, dry |-> d, exit_code |-> code,
                                stats |-> ZeroStats, issues |-> tracker.issues]
                          ELSE firstRun
  /\ run' = run + 1
  /\ atStart' = tracker
  /\ created_issues' = << >>
  /\ stats' = ZeroStats
  /\ parent_keys' = <<NoKey, NoKey, NoKey>>
  /\ visited' = << >>
  /\ others' = NewBuilders
  /\ lastFind' = NoFind
  /\ lastCall' = NoCall
  /\ absent' = {}
  /\ UNCHANGED tracker

\* The user interrupts main() while the teardown or a phase runs: the
\* KeyboardInterrupt passes every `except Exception` and main() returns 130.
Interrupt ==
  /\ pc \in AllPhases \cup {"teardown"}
  /\ faults < MaxFaults
  /\ faults' = faults + 1
  /\ interrupted' = TRUE
  /\ UNCHANGED <<tracker, sent, client, created_issues, stats, pos, parent_keys, visited,
                 others, args, config, confirm, run, lastFind, lastCall, absent, atStart>>
  /\ Leave(pc, 130)

\* One iteration of the loop of teardown_all (with --teardown-all) or of
\* teardown_issues_only.  An exception of project_exists leaves main(), whose
\* teardown block catches KeyboardInterrupt only.  After the last project
\* main() returns 0, or with --rebuild goes on to the setup phases.
TeardownStep ==
  /\ pc = "teardown"
  /\ \E o \in IF "teardown_all" \in args
            THEN TeardownProjectOutcomes(client, tracker, PROJECTS[others.t_idx])
            ELSE CleanProjectOutcomes(client, tracker, PROJECTS[others.t_idx]) :
       LET last == others.t_idx = Len(PROJECTS)
           nxt == IF o.raised \/ (last /\ "rebuild" \notin args) THEN "idle"
                  ELSE IF last THEN PhaseAfter(0, Requested(args))
                  ELSE "teardown"
           code == IF o.raised THEN NoReturn ELSE 0
       IN  /\ Remote(o)
           /\ others' = [others EXCEPT
                           !.t_idx = @ + 1,
                           !.t_results = IF o.raised THEN @ ELSE Append(@, o.result),
                           !.t_stats = [issues_deleted |-> @.issues_deleted + o.deleted,
                                        issues_failed |-> @.issues_failed + o.failed]]
           /\ pc' = nxt
           /\ exit_code' = IF nxt = "idle" THEN code ELSE exit_code
           /\ phases' = [phases EXCEPT !.started = @ \cup ({nxt} \cap AllPhases)]
           /\ firstRun' = IF nxt = "idle" /\ run = 1
                          THEN [ended |-> TRUE, args |-> args, dry |-> client.dry_run,
                                exit_code |-> code, stats |-> stats,
                                issues |-> o.T.issues]
                          ELSE firstRun
  /\ UNCHANGED <<created_issues, stats, pos, parent_keys, visited, args, config, confirm, interrupted,
                 run, atStart, lastFind, lastCall>>

\* One iteration of setup_projects' loop.
ProjectStep ==
  /\ pc = "projects"
  /\ \E o \in CreateProjectOutcomes(client, tracker, PROJECTS[others.p_idx]) :
       /\ Remote(o)
       /\ others' = [others EXCEPT !.p_idx = @ + 1,
                                   !.p_results = Append(@, ProjectStatus(o))]
  /\ UNCHANGED <<created_issues, stats, pos, parent_keys, visited, args, config, confirm, interrupted, run, atStart,
                 lastFind, lastCall>>
  /\ IF others.p_idx = Len(PROJECTS) THEN Leave("projects", 0)
     ELSE UNCHANGED <<pc, exit_code, firstRun, phases>>

\* One iteration of build_hierarchy's loops: create_<level>() for the node at
\* pos, then into its children, or past its subtree when it was not resolved.
HierarchyStep ==
  /\ pc = "hierarchy"
  /\ pos # << >>
  /\ LET level == Len(pos)
         project_key == HIERARCHY[pos[1]].strategic_objective.project
     IN  \E o \in FindOrCreateOutcomes(created_issues, client, tracker, project_key,
                                       LevelType[level], NodeAt(pos).summary,
                                       ParentKeyArg(parent_keys, level)) :
           LET newPos == IF o.raised THEN pos ELSE AfterNode(pos, o.issue)
           IN  /\ Remote(o)
               /\ lastFind' = IF o.find.called THEN o.find ELSE lastFind
               /\ visited' = (pos :> [path |-> o.path, issue |-> o.issue, raised |-> o.raised,
                                      reqs |-> o.reqs]) @@ visited
               /\ created_issues' = o.cache
               /\ stats' = IF o.raised THEN stats
                           ELSE CountIssue(stats, LevelName[level], o.issue)
               /\ pos' = newPos
               /\ parent_keys' = IF ~o.raised /\ Truthy(o.issue) /\ level <= 3
                                 THEN [parent_keys EXCEPT ![level] = GetKey(o.issue)]
                                 ELSE parent_keys
               /\ IF o.raised THEN Leave("hierarchy", 1)
                  ELSE IF newPos = << >> THEN Leave("hierarchy", 0)
                  ELSE UNCHANGED <<pc, exit_code, firstRun, phases>>
  /\ UNCHANGED <<others, args, config, confirm, interrupted, run, atStart, lastCall>>

\* One iteration of build_versions' inner loop.
VersionStep ==
  /\ pc = "versions"
  /\ \E o \in CreateVersionOutcomes(client, tracker, PROJECTS[others.v_pos[1]],
                                    VERSIONS[others.v_pos[2]]) :
       /\ Remote(o)
       /\ others' = [others EXCEPT !.v_stats = CountVersion(@, o),
                                   !.v_pos = NextVersionPos(@)]
  /\ UNCHANGED <<created_issues, stats, pos, parent_keys, visited, args, config, confirm, interrupted, run, atStart,
                 lastFind, lastCall>>
  /\ IF NextVersionPos(others.v_pos) = << >> THEN Leave("versions", 0)
     ELSE UNCHANGED <<pc, exit_code, firstRun, phases>>

\* build_constraints after the body of its loop for one record.
NextConstraint(o) ==
  [o EXCEPT !.c_idx = @ + 1, !.c_stage = "create", !.c_key = NoKey]

\* The first half of build_constraints' loop body: create_constraint.
ConstraintStep ==
  /\ pc = "constraints"
  /\ others.c_stage = "create"
  /\ \E o \in CreateConstraintOutcomes(client, tracker, others.c_stats,
                                       CONSTRAINTS[others.c_idx]) :
       LET linking == ~o.raised /\ Truthy(o.value) /\ GetKey(o.value) # NoKey
           done == [others EXCEPT !.c_stats = o.stats,
                                  !.c_done = Append(@, [issue |-> o.value, raised |-> o.raised,
                                                        reqs |-> o.reqs, walk |-> o.walk,
                                                        created |-> o.stats.created
                                                                    # others.c_stats.created])]
       IN  /\ Remote(o)
           /\ lastFind' = o.find
           /\ others' = IF o.raised THEN done
                        ELSE IF linking
                        THEN [done EXCEPT !.c_stage = "link", !.c_key = GetKey(o.value)]
                        ELSE NextConstraint(done)
           /\ UNCHANGED <<created_issues, stats, pos, parent_keys, visited, args, config, confirm, interrupted, run,
                          atStart, lastCall>>
           /\ IF o.raised THEN Leave("constraints", 1)
              ELSE IF ~linking /\ others.c_idx = Len(CONSTRAINTS) THEN Leave("constraints", 0)
              ELSE UNCHANGED <<pc, exit_code, firstRun, phases>>

\* The second half of build_constraints' loop body: link_constraint_to_target.
LinkStep ==
  /\ pc = "constraints"
  /\ others.c_stage = "link"
  /\ \E o \in LinkConstraintOutcomes(client, tracker, others.c_stats, others.c_key,
                                     CONSTRAINTS[others.c_idx]) :
       /\ Remote(o)
       /\ lastFind' = o.find
       /\ others' = IF o.raised THEN [others EXCEPT !.c_stats = o.stats]
                    ELSE NextConstraint([others EXCEPT !.c_stats = o.stats])
       /\ UNCHANGED <<created_issues, stats, pos, parent_keys, visited, args, config, confirm, interrupted, run,
                      atStart, lastCall>>
       /\ IF o.raised THEN Leave("constraints", 1)
          ELSE IF others.c_idx = Len(CONSTRAINTS) THEN Leave("constraints", 0)
          ELSE UNCHANGED <<pc, exit_code, firstRun, phases>>

\* Runs of main() with --hierarchy.
NextHier == StartRun({{"hierarchy"}}) \/ HierarchyStep \/ Interrupt

SpecHier == Init /\ [][NextHier]_vars

\* Runs of main().
Next ==
  \/ StartRun(ArgsMenu)
  \/ ProjectStep
  \/ HierarchyStep
  \/ VersionStep
  \/ ConstraintStep
  \/ LinkStep
  \/ Interrupt

Spec == Init /\ [][Next]_vars


\* The command lines of TeardownMenu that delete the projects without asking.
RebuildMenu == {a \in TeardownMenu : {"teardown_all", "force"} \subseteq a}

\* Runs of main() with --teardown-all --force, with and without --rebuild.
NextRebuild ==
  \/ StartRun(RebuildMenu)
  \/ TeardownStep
  \/ ProjectStep
  \/ HierarchyStep
  \/ VersionStep
  \/ ConstraintStep
  \/ LinkStep
  \/ Interrupt

SpecRebuild == Init /\ [][NextRebuild]_vars

\* Number of runs of main() followed when every teardown command line is
\* considered.
MaxTeardownRuns == 1

\* Runs of main() with --teardown, --teardown-all or --rebuild, with and
\* without --force.
NextTeardown ==
  \/ run < MaxTeardownRuns /\ StartRun(TeardownMenu)
  \/ TeardownStep
  \/ ProjectStep
  \/ HierarchyStep
  \/ VersionStep
  \/ ConstraintStep
  \/ LinkStep
  \/ Interrupt

SpecTeardown == Init /\ [][NextTeardown]_vars

\* ------------------------------------------------------------------ the gateway on its own

\* Number of clients constructed to be called directly in one behaviour.
MaxClients == 1
\* Number of requests one client sends before it is given no further call.
MaxSent == 2

\* The arguments the gateway operations are called with.
CallProjects == {"DEVEX"}
CallTypes == {ISSUE_TYPE_NAMES.feature, ISSUE_TYPE_NAMES.constraint}
CallSummaries == {<<"Environment", "request", "portal">>,
                  <<"Environment", "request", "portal", "v2">>,
                  <<"Say", "\"", "hi", "\"">>}
CallVersions == {"v1.0.0"}
CallTransitions == {"Start Work", "Submit for Review"}
CallFields == {<< >>, <<MitigationPlan>>}
CallIssueKeys == {<<"DEVEX", 1>>}

\* A JiraClient is constructed, for a dry run or not, to be called directly.
Connect ==
  /\ pc = "idle"
  /\ run < MaxClients
  /\ \E d \in BOOLEAN : client' = JiraClient(d)
  /\ pc' = "calls"
  /\ run' = run + 1
  /\ exit_code' = -1
  /\ sent' = << >>
  /\ atStart' = tracker
  /\ lastFind' = NoFind
  /\ lastCall' = NoCall
  /\ absent' = {}
  /\ UNCHANGED <<tracker, faults, firstRun, created_issues, stats, pos, parent_keys,
                 visited, others, args, config, confirm, interrupted, phases>>

\* The client is dropped.
Disconnect ==
  /\ pc = "calls"
  /\ pc' = "idle"
  /\ exit_code' = 0
  /\ UNCHANGED <<tracker, sent, client, created_issues, stats, pos, parent_keys, visited,
                 others, args, config, confirm, interrupted, phases, run, faults, lastFind, lastCall, absent, atStart, firstRun>>

\* One direct call of a gateway operation with outcomes `outs`.
Call(op, key, present, outs) ==
  /\ pc = "calls"
  /\ Len(sent) < MaxSent
  /\ \E o \in outs :
       /\ Remote(o)
       /\ lastCall' = CallRecord(op, key, present, o)
  /\ UNCHANGED <<created_issues, stats, pos, parent_keys, visited, others, pc, args, config, confirm, interrupted, phases, run,
                 exit_code, atStart, firstRun>>

CallGetProject ==
  \E k \in CallProjects :
    /\ Call("get_project", <<k>>, k \in tracker.projects,
            GetProjectOutcomes(client, tracker, k))
    /\ UNCHANGED lastFind

CallGetIssue ==
  \E k \in CallIssueKeys :
    /\ Call("get_issue", k, IssueByKey(tracker, k) # {}, GetIssueOutcomes(client, tracker, k))
    /\ UNCHANGED lastFind

CallCreateProject ==
  \E k \in CallProjects :
    /\ Call("create_project", <<k>>, k \in tracker.projects,
            CreateProjectOutcomes(client, tracker, k))
    /\ UNCHANGED lastFind

CallCreateIssueType ==
  \E name \in {ISSUE_TYPE_NAMES.constraint} :
    /\ Call("create_issue_type", <<name>>, name \in Range(tracker.types),
            CreateIssueTypeOutcomes(client, tracker, name))
    /\ UNCHANGED lastFind

CallCreateCustomField ==
  \E name \in {MitigationPlan} :
    /\ Call("create_custom_field", <<name>>, name \in CustomNames(tracker.fields),
            CreateCustomFieldOutcomes(client, tracker, name))
    /\ UNCHANGED lastFind

CallCreateVersion ==
  \E k \in CallProjects, name \in CallVersions :
    /\ Call("create_version", <<k, name>>, <<k, name>> \in tracker.versions,
            CreateVersionOutcomes(client, tracker, k, name))
    /\ UNCHANGED lastFind

CallCreateIssue ==
  \E k \in CallProjects, t \in CallTypes, s \in CallSummaries, cf \in CallFields :
    /\ Call("create_issue", <<k, t, s>>, IssuePresent(tracker.issues, k, t, s),
            CreateIssueOutcomes(client, tracker, k, t, s, NoKey, cf))
    /\ UNCHANGED lastFind

CallFindIssue ==
  \E k \in CallProjects, t \in {ISSUE_TYPE_NAMES.feature}, s \in CallSummaries :
    \E f \in FindOutcomes(client, tracker, k, s, t) :
      /\ Call("find_issue_by_summary", <<k, t, s>>, IssuePresent(tracker.issues, k, t, s), {f})
      /\ lastFind' = FindRecord(client, tracker, k, s, t, f)

CallCreateIssueLink ==
  \E a, b \in {i.key : i \in tracker.issues} :
    /\ a # b
    /\ Call("create_issue_link", <<"Blocks", a, b>>,
            [type |-> "Blocks", inward |-> a, outward |-> b] \in tracker.links,
            CreateIssueLinkOutcomes(client, tracker, a, b, "Blocks"))
    /\ UNCHANGED lastFind

CallTransitionIssue ==
  \E i \in tracker.issues, name \in CallTransitions :
    /\ Call("transition_issue", <<i.key, name>>,
            name \in {t.name : t \in AvailableTransitions(tracker, i)},
            TransitionIssueOutcomes(client, tracker, i.key, name))
    /\ UNCHANGED lastFind

CallUpdateIssue ==
  \E i \in tracker.issues :
    /\ Call("update_issue", <<i.key>>, TRUE, UpdateIssueOutcomes(client, tracker, i.key))
    /\ UNCHANGED lastFind

CallDelete ==
  \E i \in tracker.issues :
    /\ Call("delete_issue", <<i.key>>, TRUE, DeleteIssueOutcomes(client, tracker, i.key))
    /\ UNCHANGED lastFind

\* Clients whose operations are called one after another.
NextGateway ==
  \/ Connect
  \/ Disconnect
  \/ CallGetProject
  \/ CallGetIssue
  \/ CallCreateProject
  \/ CallCreateIssueType
  \/ CallCreateCustomField
  \/ CallCreateVersion
  \/ CallCreateIssue
  \/ CallFindIssue
  \/ CallCreateIssueLink
  \/ CallTransitionIssue
  \/ CallUpdateIssue
  \/ CallDelete

SpecGateway == Init /\ [][NextGateway]_vars


\* ------------------------------------------------------------------ the Hierarchy Builder on its own

\* Number of create_<level>() calls made on one HierarchyBuilder.
MaxNodes == 3

\* The seed nodes the builder is called for: Strategic Objectives and Portfolio
\* Epics of one project, with summaries that may repeat.
NodeProject == "DEVEX"
NodeLevels == {1, 2}
NodeSummaries == {<<"Self-Service", "Infrastructure">>, <<"Unified", "CI/CD", "Platform">>}

\* A JiraClient and a HierarchyBuilder are constructed.
NewBuilder ==
  /\ pc = "idle"
  /\ run < MaxClients
  /\ \E d \in BOOLEAN : client' = JiraClient(d)
  /\ pc' = "nodes"
  /\ run' = run + 1
  /\ exit_code' = -1
  /\ sent' = << >>
  /\ atStart' = tracker
  /\ created_issues' = << >>
  /\ stats' = ZeroStats
  /\ parent_keys' = <<NoKey, NoKey, NoKey>>
  /\ visited' = << >>
  /\ lastFind' = NoFind
  /\ absent' = {}
  /\ UNCHANGED <<tracker, faults, firstRun, pos, others, args, config, confirm, interrupted, phases,
                 lastCall>>

\* build_hierarchy's call of create_strategic_objective or create_portfolio_epic
\* for a seed node: a Portfolio Epic only under a Strategic Objective that was
\* found or created, with that issue's key as parent.  visited lists the calls
\* in order.  An exception of the search ends the build.
CallCreateNode ==
  /\ pc = "nodes"
  /\ Len(visited) < MaxNodes
  /\ \E level \in NodeLevels, summary \in NodeSummaries :
       /\ level > 1 => parent_keys[level - 1] # NoKey
       /\ \E o \in FindOrCreateOutcomes(created_issues, client, tracker, NodeProject,
                                        LevelType[level], summary,
                                        ParentKeyArg(parent_keys, level)) :
            /\ Remote(o)
            /\ lastFind' = IF o.find.called THEN o.find ELSE lastFind
            /\ visited' = Append(visited,
                                 [level |-> level, summary |-> summary,
                                  parent |-> ParentKeyArg(parent_keys, level),
                                  path |-> o.path, issue |-> o.issue, raised |-> o.raised,
                                  reqs |-> o.reqs])
            /\ created_issues' = o.cache
            /\ stats' = IF o.raised THEN stats ELSE CountIssue(stats, LevelName[level], o.issue)
            /\ parent_keys' = IF o.raised THEN parent_keys
                              ELSE [parent_keys EXCEPT
                                      ![level] = IF Truthy(o.issue) THEN GetKey(o.issue)
                                                 ELSE NoKey]
            /\ pc' = IF o.raised THEN "idle" ELSE pc
            /\ exit_code' = IF o.raised THEN 1 ELSE exit_code
  /\ UNCHANGED <<pos, others, args, config, confirm, interrupted, phases, run, atStart, firstRun, lastCall>>

\* HierarchyBuilder called node by node.
NextNodes == NewBuilder \/ CallCreateNode

SpecNodes == Init /\ [][NextNodes]_vars

\* ------------------------------------------------------------------ delete_all_issues_in_project on its own

\* Number of iterations of the loop that are followed.
MaxBatches == 3

\* A JiraClient and a JiraTeardown are constructed and
\* delete_all_issues_in_project is called for a project.
StartDelete ==
  /\ pc = "idle"
  /\ run < MaxClients
  /\ \E d \in BOOLEAN : client' = JiraClient(d)
  /\ pc' = "delete_all"
  /\ run' = run + 1
  /\ exit_code' = -1
  /\ sent' = << >>
  /\ atStart' = tracker
  /\ others' = NewBuilders
  /\ absent' = {}
  /\ UNCHANGED <<tracker, faults, firstRun, created_issues, stats, pos, parent_keys, visited,
                 args, config, confirm, interrupted, phases, lastFind, lastCall>>

\* The tracker's administrator takes the permission to delete issues from the
\* client's user.
RevokeDelete ==
  /\ tracker.may_delete
  /\ tracker' = [tracker EXCEPT !.may_delete = FALSE]
  /\ UNCHANGED <<sent, client, created_issues, stats, pos, parent_keys, visited, others, pc,
                 args, config, confirm, run, phases, exit_code, interrupted, faults, lastFind,
                 lastCall, absent, atStart, firstRun>>

\* One iteration of the loop of delete_all_issues_in_project(PROJECTS[1]).
DeleteBatchStep ==
  /\ pc = "delete_all"
  /\ others.t_iter < MaxBatches
  /\ \E b \in DeleteBatchOutcomes(client, tracker, PROJECTS[1]) :
       /\ Remote(b)
       /\ others' = [others EXCEPT
                       !.t_iter = @ + 1,
                       !.t_batch = [issues |-> b.issues, deleted |-> b.deleted,
                                    again |-> b.again],
                       !.t_stats = [issues_deleted |-> @.issues_deleted + b.deleted,
                                    issues_failed |-> @.issues_failed + b.failed]]
       /\ pc' = IF b.again THEN pc ELSE "idle"
       /\ exit_code' = IF b.again THEN exit_code ELSE 0
  /\ UNCHANGED <<created_issues, stats, pos, parent_keys, visited, args, config, confirm, interrupted,
                 phases, run, atStart, firstRun, lastFind, lastCall>>

\* delete_all_issues_in_project called directly.
NextDelete == StartDelete \/ RevokeDelete \/ DeleteBatchStep

SpecDelete == Init /\ [][NextDelete]_vars
\* ------------------------------------------------------------------ properties

\* The requests of a log that ask the tracker to create an issue.
CreateRequests(reqs) == {x \in 1..Len(reqs) : reqs[x].op = "create_issue"}

\* No error was counted at any level.
NoErrors(st) == \A l \in DOMAIN st : st[l].errors = 0

\* Two runs of main() with --hierarchy, neither a dry run, have returned 0, and
\* the first counted no error.
TwoHierarchyRunsEnded ==
  /\ pc = "idle" /\ run = 2 /\ args = {"hierarchy"} /\ ~client.dry_run /\ exit_code = 0
  /\ firstRun.ended /\ firstRun.args = {"hierarchy"} /\ ~firstRun.dry
  /\ firstRun.exit_code = 0 /\ NoErrors(firstRun.stats)

\* C1: a second run of the Hierarchy Builder after a first run without errors
\* sends no create-issue request, resolves every node by the lookup, and leaves
\* the tracker's issues as the first run left them.
C1_SecondRunCreatesNothing ==
  TwoHierarchyRunsEnded =>
    /\ CreateRequests(sent) = {}
    /\ \A p \in AllPositions : p \in DOMAIN visited /\ visited[p].path = "lookup"
    /\ tracker.issues = firstRun.issues

\* C2: in that second run, at every level `exists` equals the first run's
\* `created`, and `created` is 0.
C2_SecondRunCountsExisting ==
  TwoHierarchyRunsEnded =>
    \A l \in DOMAIN stats :
      stats[l].exists = firstRun.stats[l].created /\ stats[l].created = 0

\* The natural keys of the seed: the triples of the hierarchy nodes and of the
\* constraint records.
SeedTriples ==
  {<<HIERARCHY[p[1]].strategic_objective.project, LevelType[Len(p)], NodeAt(p).summary>> :
     p \in AllPositions}
  \cup {<<CONSTRAINTS[x].blocks.project, ISSUE_TYPE_NAMES.constraint, CONSTRAINTS[x].summary>> :
          x \in 1..Len(CONSTRAINTS)}

\* The lookup request that answers for the natural key of a create request.
LookupOp(op) ==
  IF op = "create_project" THEN "get_project"
  ELSE IF op = "create_version" THEN "get_project_versions"
  ELSE IF op = "create_issue_type" THEN "get_issue_types"
  ELSE IF op = "create_custom_field" THEN "get_fields"
  ELSE "search"

\* C3: whatever runs of the builders went before and whichever remote calls
\* failed, the tracker holds at most one issue per seed triple, no create
\* request reaches it for a project, version or issue it already holds, and
\* every create request follows, in the same run, a lookup of the same natural
\* key that returned absent.
C3_NoDuplicateEntities ==
  /\ \A t \in SeedTriples :
       Cardinality({i \in tracker.issues : <<i.project, i.type, i.summary>> = t}) <= 1
  /\ \A x \in 1..Len(sent) :
       sent[x].op \in {"create_project", "create_version", "create_issue"} =>
         /\ ~sent[x].present
         /\ sent[x].key \in absent
         /\ \E y \in 1..(x - 1) :
              sent[y].op = LookupOp(sent[x].op) /\ sent[y].key = sent[x].key

\* The gateway's create operations.
GatewayCreates ==
  {"create_project", "create_issue_type", "create_custom_field", "create_version",
   "create_issue"}

\* The create requests among the requests of a call.
CreatesIn(call) == {x \in 1..Len(call.reqs) : call.reqs[x].op = call.op}

\* A call looked the entity up before it asked for its creation, and with the
\* entity present it asked for no creation and returned the entity.
LooksUpFirst(call) ==
  /\ \A x \in CreatesIn(call) :
       \E y \in 1..(x - 1) :
         call.reqs[y].op = LookupOp(call.op) /\ call.reqs[y].key = call.key
  /\ call.present => CreatesIn(call) = {}
  /\ call.present /\ ~call.raised => Truthy(call.value) /\ call.value.key = call.key

\* C4 as the specification states it: each of create_project,
\* create_issue_type, create_custom_field, create_version and create_issue
\* looks its entity up first, and with the entity present returns it and sends
\* no create request.
C4_EveryCreateLooksUpFirst ==
  lastCall.op \in GatewayCreates => LooksUpFirst(lastCall)

\* C4 as the code has it: create_project, create_issue_type,
\* create_custom_field and create_version look the entity up first and with it
\* present return it and send no create request; create_issue sends no search
\* and, outside a dry run, sends its create request whether or not the tracker
\* holds an issue with that project, type and summary.
C4_CreateLooksUpFirstExceptIssue ==
  /\ lastCall.op \in GatewayCreates \ {"create_issue"} => LooksUpFirst(lastCall)
  /\ lastCall.op = "create_issue" =>
       /\ \A x \in 1..Len(lastCall.reqs) : lastCall.reqs[x].op # "search"
       /\ ~client.dry_run /\ ~lastCall.raised =>
            /\ CreatesIn(lastCall) # {}
            /\ \A x \in CreatesIn(lastCall) : lastCall.reqs[x].present = lastCall.present

\* create_version was called for a version the tracker held and returned it.
C4_Witness ==
  /\ lastCall.op = "create_version" /\ lastCall.present /\ ~lastCall.raised
  /\ lastCall.value.key = lastCall.key

\* C5: find_issue_by_summary returns the first candidate of the search whose
\* summary equals the requested one, and None when no candidate's summary
\* equals it; never a candidate whose summary only contains it.
C5_FindReturnsFirstExact ==
  lastFind.called /\ ~lastFind.raised =>
    LET c == lastFind.candidates
        exact == {x \in 1..Len(c) : c[x].summary = lastFind.summary}
    IN  /\ exact = {} => lastFind.result = PyNone
        /\ exact # {} => lastFind.result = c[CHOOSE x \in exact : \A y \in exact : x <= y]
        /\ Truthy(lastFind.result) => lastFind.result.summary = lastFind.summary

\* The search returned a candidate that only contains the requested summary
\* before the one that equals it, and the call returned the latter.
C5_Witness ==
  /\ lastFind.called /\ ~lastFind.raised /\ Len(lastFind.candidates) = 2
  /\ lastFind.candidates[1].summary # lastFind.summary
  /\ lastFind.candidates[2].summary = lastFind.summary
  /\ lastFind.result = lastFind.candidates[2]

\* The loop indices strictly inside the subtree of p.
Below(p) == {q \in AllPositions : Len(q) > Len(p) /\ SubSeq(q, 1, Len(p)) = p}

\* The node at p was found or created in this run.
Resolved(p) == p \in DOMAIN visited /\ ~visited[p].raised /\ Truthy(visited[p].issue)

\* The tracker's issue with key k is the issue of the seed node at p.
IsNodeIssue(k, p) ==
  \E i \in tracker.issues :
    /\ i.key = k
    /\ i.project = HIERARCHY[p[1]].strategic_objective.project
    /\ i.type = LevelType[Len(p)]
    /\ i.summary = NodeAt(p).summary

\* C6: every create request for a Portfolio Epic, Business Outcome or Feature
\* carries as parent link the key of the issue found or created for its parent
\* node in this run; and no node is attempted whose parent was not resolved.
C6_ParentLinkIsResolvedParent ==
  \A p \in DOMAIN visited :
    /\ Len(p) > 1 => Resolved(ParentPos(p))
    /\ \A x \in 1..Len(visited[p].reqs) :
         visited[p].reqs[x].op = "create_issue" =>
           IF Len(p) = 1 THEN visited[p].reqs[x].parent = NoKey
           ELSE /\ visited[p].reqs[x].parent = visited[ParentPos(p)].issue.key
                /\ IsNodeIssue(visited[p].reqs[x].parent, ParentPos(p))

\* A Feature was created under a Business Outcome that the lookup found, the
\* Business Outcome under a Portfolio Epic that was created.
C6_Witness ==
  \E p \in DOMAIN visited :
    /\ Len(p) = 4 /\ visited[p].path = "create" /\ Truthy(visited[p].issue)
    /\ visited[ParentPos(p)].path = "lookup"
    /\ \E q \in DOMAIN visited :
         Len(q) = 3 /\ visited[q].path = "create" /\ visited[ParentPos(q)].path = "create"

\* The create request for the node at p failed in this run.
CreateFailed(p) ==
  /\ p \in DOMAIN visited /\ ~visited[p].raised /\ visited[p].path = "error"
  /\ \E x \in 1..Len(visited[p].reqs) : visited[p].reqs[x].op = "create_issue"

\* q comes before p in the order build_hierarchy walks the tree.
Before(q, p) ==
  \/ Len(q) < Len(p) /\ SubSeq(p, 1, Len(q)) = q
  \/ \E x \in 1..Min(Len(p), Len(q)) :
       q[x] < p[x] /\ SubSeq(q, 1, x - 1) = SubSeq(p, 1, x - 1)

\* build_hierarchy has gone past the node at q in this run.
Passed(q) == visited # << >> /\ (pos = << >> \/ Before(q, pos))

\* The later siblings of p.
LaterSiblings(p) ==
  {q \in AllPositions : Len(q) = Len(p) /\ ParentPos(q) = ParentPos(p) /\ q[Len(q)] > p[Len(p)]}

\* C7: when the create request of a node fails, the error counter of its level
\* counts it, no node of its subtree is attempted, and every later sibling the
\* walk has gone past was attempted, as was every node below such a sibling
\* whose parent was resolved.
C7_FailedNodeSkipsOnlyItsSubtree ==
  /\ \A p \in DOMAIN visited :
       CreateFailed(p) =>
         /\ Below(p) \cap DOMAIN visited = {}
         /\ \A q \in LaterSiblings(p) :
              /\ Passed(q) => q \in DOMAIN visited
              /\ \A d \in Below(q) :
                   Passed(d) /\ Resolved(ParentPos(d)) => d \in DOMAIN visited
  /\ \A l \in 1..4 :
       stats[LevelName[l]].errors =
         Cardinality({p \in DOMAIN visited :
                        Len(p) = l /\ ~visited[p].raised /\ ~Truthy(visited[p].issue)})

\* The create request of the first Portfolio Epic failed; its Business Outcomes
\* were not attempted, and the second Portfolio Epic and its Business Outcome
\* were created.
C7_Witness ==
  /\ CreateFailed(<<1, 1>>)
  /\ stats["portfolio_epics"].errors = 1
  /\ <<1, 1, 1>> \notin DOMAIN visited
  /\ Resolved(<<1, 2>>) /\ visited[<<1, 2>>].path = "create"
  /\ Resolved(<<1, 2, 1>>) /\ Resolved(<<1, 2, 1, 1>>)

\* C8: a transport error of the search for a hierarchy node, a constraint or a
\* link target does not end the phase: main() does not return 1 because of it.
C8_LookupErrorIsCaught ==
  lastFind.called /\ lastFind.fault => ~(pc = "idle" /\ exit_code = 1)

\* C9: in a dry run no request but GET reaches the tracker, and the tracker is
\* as it was when the client was constructed.
C9_DryRunSendsNoWrites ==
  client.dry_run =>
    /\ \A x \in 1..Len(sent) : sent[x].method = "GET"
    /\ tracker = atStart

\* In a dry run an existing issue was deleted through the gateway, the call
\* returned, and the tracker still holds the issue.
C9_Witness ==
  /\ client.dry_run /\ lastCall.op = "delete_issue" /\ ~lastCall.raised
  /\ \E i \in tracker.issues : <<i.key>> = lastCall.key

\* C10: in a dry run find_issue_by_summary still sends its search, and finds
\* the issue the tracker holds with that project, type and summary.
C10_DryRunSearchFinds ==
  lastFind.called /\ lastFind.dry /\ lastFind.present =>
    lastFind.sent /\ (~lastFind.raised => Truthy(lastFind.result))


\* The tracker holds the issue that constraint record x names as its target.
TargetPresent(T, x) ==
  LET b == CONSTRAINTS[x].blocks
  IN  IssuePresent(T.issues, b.project, TargetType(b.type), b.summary)

\* The requests that a step added to the request log.
NewRequests == {x \in 1..Len(sent') : x > Len(sent)}

\* build_constraints goes on after the record at c_idx: to the next record, or
\* out of the phase with nothing raised when it was the last.
ContinuesAfterRecord ==
  IF others.c_idx < Len(CONSTRAINTS)
  THEN pc' = "constraints" /\ others'.c_idx = others.c_idx + 1 /\ others'.c_stage = "create"
  ELSE pc' # "constraints" /\ exit_code' # 1

\* link_constraint_to_target runs for a record whose target no issue of the
\* declared project and type matches, and its search returns.
LinkOfAbsentTarget ==
  /\ pc = "constraints" /\ others.c_stage = "link"
  /\ ~TargetPresent(tracker, others.c_idx)
  /\ lastFind'.called /\ ~lastFind'.raised
  /\ interrupted' = interrupted

\* C11: when a constraint's blocks.summary matches no issue of the declared
\* project and type, link_constraint_to_target adds exactly one to links_failed,
\* leaves links_created alone, sends no link-create and no create-issue
\* request, leaves the tracker's issues and links as they were, and
\* build_constraints goes on with the next record.
C11_AbsentTargetCountsOneFailedLink ==
  [][LinkOfAbsentTarget =>
       /\ others'.c_stats.links_failed = others.c_stats.links_failed + 1
       /\ others'.c_stats.links_created = others.c_stats.links_created
       /\ \A x \in NewRequests : sent'[x].op \notin {"create_issue_link", "create_issue"}
       /\ tracker'.issues = tracker.issues /\ tracker'.links = tracker.links
       /\ ContinuesAfterRecord]_vars

\* A run of all phases ended in which the first two constraints were linked
\* and the third, whose target is not in the tracker, counted a failed link.
C11_Witness ==
  /\ pc = "idle" /\ exit_code = 0 /\ "constraints" \in args
  /\ others.c_idx = Len(CONSTRAINTS) + 1
  /\ ~TargetPresent(tracker, Len(CONSTRAINTS))
  /\ lastFind.called /\ ~lastFind.raised /\ ~lastFind.present
  /\ lastFind.summary = CONSTRAINTS[Len(CONSTRAINTS)].blocks.summary
  /\ others.c_stats.links_failed = 1 /\ others.c_stats.links_created = 2

\* The names of the transition_issue calls of a status walk, in order.
WalkNames(walk) == [x \in 1..Len(walk) |-> walk[x].name]

\* No call of a status walk raised.
NoneRaised(walk) == \A x \in 1..Len(walk) : ~walk[x].raised

\* The paths from 'Identified' as the specification lists them.
ExpectedWalk(target_status) ==
  CASE target_status = "Identified" -> << >>
    [] target_status = "In Progress" -> <<"Start Work">>
    [] target_status = "Ready for Review" -> <<"Start Work", "Submit for Review">>
    [] target_status = "Closed" -> <<"Start Work", "Submit for Review", "Approve & Close">>

\* C12: for a constraint that create_constraint created in this run, the calls
\* of transition_issue made for it are, when none of them raised, exactly the
\* path of its declared status from 'Identified', in order; the table holds
\* that path for each of the four statuses.
C12_StatusWalkFollowsTable ==
  /\ \A k \in 1..Len(others.c_done) :
       LET e == others.c_done[k]
       IN  e.created /\ NoneRaised(e.walk) =>
             WalkNames(e.walk) = ExpectedWalk(CONSTRAINTS[k].status)
  /\ \A s \in {"In Progress", "Ready for Review", "Closed"} :
       TransitionPath(s) = ExpectedWalk(s)

\* The third constraint, declared 'Ready for Review', was created and both
\* transitions of its walk were executed.
C12_Witness ==
  /\ Len(others.c_done) = 3
  /\ others.c_done[3].created
  /\ Len(others.c_done[3].walk) = 2
  /\ \A x \in 1..2 : others.c_done[3].walk[x].matched
  /\ \E i \in tracker.issues :
       i.key = GetKey(others.c_done[3].issue) /\ i.status = "Ready for Review"

\* The direct lookups by key.
KeyLookups == {"get_project", "get_issue"}

\* C13: get_project and get_issue return the entity when the tracker holds it,
\* return None without raising when the tracker answers 404, and raise for
\* every other failure of the request: they raise only when the request failed
\* otherwise, and return None only when the tracker answered 404.
C13_LookupFolds404Only ==
  lastCall.op \in KeyLookups =>
    /\ lastCall.nfaults > 0 => lastCall.raised
    /\ lastCall.raised => lastCall.nfaults > 0
    /\ ~lastCall.raised /\ lastCall.present =>
         Truthy(lastCall.value) /\ lastCall.value.key = lastCall.key
    /\ ~lastCall.raised /\ ~lastCall.present /\ lastCall.reqs # << >> =>
         lastCall.value = PyNone
    /\ ~lastCall.raised /\ lastCall.value = PyNone =>
         ~lastCall.present /\ Len(lastCall.reqs) = 1 /\ lastCall.nfaults = 0

\* get_issue was called for a key the tracker does not hold and returned None.
C13_Witness ==
  /\ lastCall.op = "get_issue" /\ ~lastCall.present /\ ~lastCall.raised
  /\ lastCall.value = PyNone /\ Len(lastCall.reqs) = 1

\* The transition-execute requests among the requests of a call.
ExecuteRequests(call) == {x \in 1..Len(call.reqs) : call.reqs[x].op = "transition"}

\* C14: transition_issue sends at most one execute request, and only for a name
\* that is among the transitions available on the issue; with the name
\* available it executes the transition and returns True (in a dry run the
\* request is suppressed like every write); with the name not available it
\* returns False, raises nothing and sends no execute request.
C14_TransitionExecutesIffAvailable ==
  lastCall.op = "transition_issue" =>
    /\ Cardinality(ExecuteRequests(lastCall)) <= 1
    /\ \A x \in ExecuteRequests(lastCall) :
         lastCall.present /\ lastCall.reqs[x].key = lastCall.key
    /\ lastCall.present /\ ~lastCall.raised =>
         /\ Truthy(lastCall.value)
         /\ ~client.dry_run => ExecuteRequests(lastCall) # {}
    /\ lastCall.present /\ lastCall.raised => lastCall.nfaults > 0
    /\ ~lastCall.present /\ lastCall.nfaults = 0 =>
         ~lastCall.raised /\ lastCall.value = PyNone /\ ExecuteRequests(lastCall) = {}

\* transition_issue was called with a name that is not available on the issue
\* and returned False after the one request that lists the transitions.
C14_Witness ==
  /\ lastCall.op = "transition_issue" /\ ~lastCall.present /\ ~lastCall.raised
  /\ lastCall.value = PyNone
  /\ Len(lastCall.reqs) = 1 /\ lastCall.reqs[1].op = "get_transitions"

\* A run of main() has ended.
RunEnded == pc = "idle" /\ run > 0

\* Every phase requested on the command line ran to the end of its loop.
PhasesCompleted ==
  /\ "projects" \in args => others.p_idx = Len(PROJECTS) + 1
  /\ "hierarchy" \in args => pos = << >> /\ visited # << >>
  /\ "versions" \in args => others.v_pos = << >>
  /\ "constraints" \in args => others.c_idx = Len(CONSTRAINTS) + 1

\* C15: a run that the user interrupted, at whatever point after startup, ends
\* with main() returning 130; a run that completed its requested phases
\* returns 0, and a run ended by an error returns 1.
C15_InterruptReturns130 ==
  RunEnded =>
    /\ interrupted => exit_code = 130
    /\ ~interrupted /\ PhasesCompleted => exit_code = 0
    /\ ~interrupted /\ ~PhasesCompleted => exit_code = 1

\* A connection setting is absent or empty in this run.
SettingMissing == \E k \in Settings : config[k] # "set"

\* C16: when the base URL, the username or the token is absent or empty,
\* main() returns a non-zero exit code and no request has been sent to the
\* tracker.
C16_MissingSettingSendsNothing ==
  run > 0 /\ SettingMissing =>
    pc = "idle" /\ exit_code # 0 /\ sent = << >>

\* C17: every setup phase that was started has printed its end-of-phase
\* summary when the run is over, unless the user interrupted the run.
C17_StartedPhasePrintsSummary ==
  RunEnded /\ ~interrupted => phases.started \subseteq phases.printed

\* C18: in the status walk of a constraint, a call of transition_issue that
\* found no transition of the requested name among the issue's available
\* transitions is the last call of the walk: no later transition of the path
\* is attempted for that constraint.
C18_WalkAbortsOnNoMatch ==
  \A k \in 1..Len(others.c_done) :
    LET walk == others.c_done[k].walk
    IN  \A i \in 1..Len(walk) :
          (~walk[i].raised /\ ~walk[i].matched) => i = Len(walk)

\* C19: while the tracker has no link type 'Blocks', no link-create request is
\* sent and the Constraint Builder counts no created link: each attempt to link
\* is a failed link.
C19_MissingLinkTypeCountsFailedLink ==
  "Blocks" \notin Range(tracker.linkTypes) =>
    /\ \A x \in 1..Len(sent) : sent[x].op # "create_issue_link"
    /\ others.c_stats.links_created = 0

\* C20: outside a dry run the client's project cache holds only projects the
\* tracker has; and when --teardown-all --rebuild has left the projects phase,
\* a create request was sent for every seed project the teardown deleted.
C20_ProjectCacheAgreesWithTracker ==
  ~client.dry_run =>
    /\ \A k \in DOMAIN client.project_cache : k \in tracker.projects
    /\ "projects" \in phases.printed /\ "teardown_all" \in args =>
         \A x \in 1..Len(others.t_results) :
           others.t_results[x] = "deleted" =>
             \E y \in 1..Len(sent) : /\ sent[y].op = "create_project"
                                     /\ sent[y].key = <<PROJECTS[x]>>

\* ------------------------------------------------------------------ C21..C30

\* C21: a dry run of the Hierarchy Builder against a tracker without issues,
\* undisturbed, counts no error at any level and visits every seed node.
C21_DryRunVisitsEveryNode ==
  /\ RunEnded /\ args = {"hierarchy"} /\ client.dry_run
  /\ faults = 0 /\ exit_code = 0 /\ atStart.issues = {}
  => NoErrors(stats) /\ AllPositions \subseteq DOMAIN visited

\* C22: every link-create request of the Constraint Builder has link type
\* 'Blocks', as outward issue the issue of a constraint record and as inward
\* issue an issue with the project, type and summary of that record's target.
C22_LinkIsConstraintBlocksTarget ==
  \A x \in 1..Len(sent) :
    sent[x].op = "create_issue_link" =>
      \E k \in 1..Len(CONSTRAINTS), ci \in tracker.issues, ti \in tracker.issues :
        /\ sent[x].key = <<"Blocks", ti.key, ci.key>>
        /\ ci.type = ISSUE_TYPE_NAMES.constraint
        /\ ci.summary = CONSTRAINTS[k].summary
        /\ ti.project = CONSTRAINTS[k].blocks.project
        /\ ti.type = TargetType(CONSTRAINTS[k].blocks.type)
        /\ ti.summary = CONSTRAINTS[k].blocks.summary

\* A run ended that sent a link-create request for the first constraint.
C22_Witness ==
  /\ pc = "idle" /\ exit_code = 0 /\ others.c_stats.links_created > 0
  /\ \E x \in 1..Len(sent) : sent[x].op = "create_issue_link"
  /\ \E l \in tracker.links : l.type = "Blocks"

\* link_constraint_to_target runs, undisturbed and not in a dry run, for a
\* record whose constraint create_constraint found already existing, in a
\* tracker that has the link type; the target is found.
LinkOfExistingConstraint ==
  /\ pc = "constraints" /\ others.c_stage = "link"
  /\ others.c_done # << >>
  /\ ~others.c_done[Len(others.c_done)].created
  /\ ~client.dry_run /\ "Blocks" \in Range(tracker.linkTypes)
  /\ lastFind'.called /\ ~lastFind'.raised /\ Truthy(lastFind'.result)
  /\ interrupted' = interrupted /\ faults' = faults

\* C23: for a constraint that was found already existing, the target is still
\* resolved and a link-create request for the pair is sent, whether or not the
\* tracker already has that link; no request asks for the issue's links.
C23_ExistingConstraintIsRelinked ==
  [][LinkOfExistingConstraint =>
       /\ \E x \in NewRequests :
            /\ sent'[x].op = "create_issue_link"
            /\ sent'[x].key = <<"Blocks", GetKey(lastFind'.result), others.c_key>>
       /\ \E x \in NewRequests : sent'[x].op = "search"
       /\ \A x \in NewRequests :
            sent'[x].op \in {"search", "get_issue_link_types", "create_issue_link"}
       /\ others'.c_stats.links_created = others.c_stats.links_created + 1]_vars

\* In a second run the first constraint was found existing and a link-create
\* request was sent for a link the tracker had when the run started.
C23_Witness ==
  /\ run = 2 /\ others.c_done # << >> /\ ~others.c_done[1].created
  /\ Truthy(others.c_done[1].issue)
  /\ \E x \in 1..Len(sent), l \in atStart.links :
       /\ sent[x].op = "create_issue_link"
       /\ sent[x].key = <<l.type, l.inward, l.outward>>

\* The calls i < j of the builder are for the same project, type and summary,
\* and call i returned with the issue it found or created.
SameNodeAgain(i, j) ==
  /\ i < j
  /\ visited[i].level = visited[j].level /\ visited[i].summary = visited[j].summary
  /\ ~visited[i].raised /\ visited[i].path \in {"lookup", "create"}

\* Call c is for a child of the node of call j: no call for a node of j's
\* level lies between them.
ChildOfCall(c, j) ==
  /\ j < c /\ visited[c].level = visited[j].level + 1
  /\ \A x \in (j + 1)..(c - 1) : visited[x].level # visited[j].level

\* C24: when two seed nodes have the same project, type and summary, the
\* find-or-create of the second returns the issue of the first and sends no
\* request, and the children of the second are created with the key of the
\* first node's issue as parent link.
C24_DuplicateNodeAttachesToFirst ==
  \A i \in 1..Len(visited), j \in 1..Len(visited) :
    SameNodeAgain(i, j) =>
      /\ visited[j].path = "cache" /\ ~visited[j].raised
      /\ visited[j].reqs = << >>
      /\ visited[j].issue = visited[i].issue
      /\ \A c \in 1..Len(visited) :
           ChildOfCall(c, j) =>
             /\ visited[c].parent = GetKey(visited[i].issue)
             /\ \A x \in CreateRequests(visited[c].reqs) :
                  visited[c].reqs[x].parent = GetKey(visited[i].issue)

\* A Strategic Objective was created, the builder was called for it again, and
\* a Portfolio Epic was then created under it.
C24_Witness ==
  /\ pc = "nodes" /\ Len(visited) = 3
  /\ SameNodeAgain(1, 2) /\ visited[1].path = "create"
  /\ ChildOfCall(3, 2) /\ visited[3].path = "create"

\* The status an issue is in after the transitions named in `path` were
\* executed in order from `status` under `workflow`; "none" when a name of the
\* path is not among the transitions that leave the status then reached.
RECURSIVE StatusAfter(_, _, _)
StatusAfter(workflow, status, path) ==
  IF path = << >> THEN status
  ELSE LET enabled == {t \in workflow : t.from = status /\ t.name = Head(path)}
       IN  IF enabled = {} THEN "none"
           ELSE StatusAfter(workflow, (CHOOSE t \in enabled : TRUE).to, Tail(path))

\* C25: for each non-initial status S of the Constraint workflow, the
\* builder's transition path for S, executed in order from 'Identified' under
\* CONSTRAINT_WORKFLOW, is enabled at every step and ends in S; and in a
\* tracker with that workflow a created constraint whose walk did not raise
\* has every transition matched and is in its declared status.
C25_PathReachesDeclaredStatus ==
  /\ \A s \in {"In Progress", "Ready for Review", "Closed"} :
       StatusAfter(CONSTRAINT_WORKFLOW, "Identified", TransitionPath(s)) = s
  /\ tracker.workflow = CONSTRAINT_WORKFLOW =>
       \A k \in 1..Len(others.c_done) :
         LET e == others.c_done[k]
         IN  e.created /\ NoneRaised(e.walk) =>
               /\ \A x \in 1..Len(e.walk) : e.walk[x].matched
               /\ \E i \in tracker.issues :
                    i.key = GetKey(e.issue) /\ i.status = CONSTRAINTS[k].status

\* In a tracker with the workflow of config.py the constraints declared 'In
\* Progress' and 'Ready for Review' were created and walked to their status.
C25_Witness ==
  /\ tracker.workflow = CONSTRAINT_WORKFLOW /\ Len(others.c_done) = 3
  /\ \A k \in 2..3 :
       /\ others.c_done[k].created /\ NoneRaised(others.c_done[k].walk)
       /\ Len(others.c_done[k].walk) = k - 1
       /\ \E i \in tracker.issues :
            i.key = GetKey(others.c_done[k].issue) /\ i.status = CONSTRAINTS[k].status

\* C26: the loop of delete_all_issues_in_project does not go on after an
\* iteration that fetched a full batch and deleted none of its issues: it
\* would fetch the same batch again.
C26_DeleteLoopLeavesFailingBatch ==
  others.t_iter > 0 /\ others.t_batch.deleted = 0 => ~others.t_batch.again

\* The requests of this run that delete something.
DeleteRequests == {x \in 1..Len(sent) : sent[x].method = "DELETE"}

\* The requests of this run that change the tracker.
MutatingRequests == {x \in 1..Len(sent) : sent[x].method \in {"POST", "PUT", "DELETE"}}

\* The user was asked to confirm and the answer was not a confirmation.
Declined(accepted) == confirm # NotAsked /\ confirm # "^C" /\ confirm \notin accepted

\* C27 as stated: in a teardown, teardown-all or rebuild run outside a dry run
\* a delete request is sent only with --force or after the user typed 'DELETE'
\* (teardown-all) or 'yes' (otherwise).
C27_DeleteOnlyAfterExactConfirmation ==
  run > 0 /\ Tearing(args) /\ ~client.dry_run /\ DeleteRequests # {} =>
    \/ "force" \in args
    \/ confirm = IF "teardown_all" \in args THEN "DELETE" ELSE "yes"

\* C27, amended: a delete request is sent only with --force or after the user
\* typed 'DELETE' (teardown-all) or 'yes' in any letter case (otherwise); when
\* the user declines, main returns 0, no mutating request was sent and no
\* setup phase was started.
C27_DeleteOnlyAfterConfirmation ==
  LET accepted == IF "teardown_all" \in args THEN {"DELETE"} ELSE {"yes", "YES"}
  IN  run > 0 /\ Tearing(args) /\ ~client.dry_run =>
        /\ DeleteRequests # {} => "force" \in args \/ confirm \in accepted
        /\ Declined(accepted) =>
             /\ pc = "idle" /\ exit_code = 0
             /\ MutatingRequests = {} /\ phases.started = {}
             /\ tracker = atStart

\* The user answered 'delete' to the prompt of --teardown-all: main returned 0
\* and sent nothing but the connection test; and in another case typed 'YES'
\* to the prompt of --teardown and issues were deleted.
C27_Witness ==
  \/ /\ "teardown_all" \in args /\ "force" \notin args /\ confirm = "delete"
     /\ pc = "idle" /\ exit_code = 0 /\ Len(sent) = 1 /\ atStart.issues # {}
  \/ /\ args = {"teardown"} /\ confirm = "YES" /\ DeleteRequests # {}

\* C28: when the tracker holds an issue of the project and type whose summary
\* is exactly the requested one, a find_issue_by_summary call that returns
\* (outside a dry run) returns an issue with that summary.
C28_FindReturnsExistingExactMatch ==
  lastFind.called /\ ~lastFind.raised /\ ~lastFind.dry /\ lastFind.present =>
    Truthy(lastFind.result) /\ lastFind.result.summary = lastFind.summary

\* create_constraint runs and its lookup finds the constraint already existing.
CreateOfExistingConstraint ==
  /\ pc = "constraints" /\ others.c_stage = "create"
  /\ Len(others'.c_done) = Len(others.c_done) + 1
  /\ lastFind'.called /\ ~lastFind'.raised /\ Truthy(lastFind'.result)

\* A step sends a request that asks for an issue's transitions, executes one,
\* or updates an issue.
SendsTransitionOrUpdate ==
  \E x \in NewRequests : sent'[x].op \in {"get_transitions", "transition", "update_issue"}

\* C29: for a constraint that the lookup finds already existing the builder
\* sends nothing but the search, whatever status the record declares, and
\* leaves the tracker as it is; requests for transitions are sent only in the
\* create_constraint call that created the constraint issue.
C29_ExistingConstraintIsLeftAlone ==
  [][/\ CreateOfExistingConstraint =>
          /\ \A x \in NewRequests : sent'[x].op = "search"
          /\ tracker' = tracker
          /\ others'.c_done[Len(others'.c_done)].walk = << >>
          /\ ~others'.c_done[Len(others'.c_done)].created
          /\ others'.c_stats.exists = others.c_stats.exists + 1
     /\ SendsTransitionOrUpdate =>
          /\ pc = "constraints" /\ others.c_stage = "create"
          /\ others'.c_done[Len(others'.c_done)].created
          /\ others'.c_stats.created = others.c_stats.created + 1]_vars

\* In a second run the third constraint, whose record declares 'Ready for
\* Review', was found existing in another status and no transition was tried.
C29_Witness ==
  /\ run = 2 /\ Len(others.c_done) = 3
  /\ ~others.c_done[3].created /\ Truthy(others.c_done[3].issue)
  /\ others.c_done[3].walk = << >>
  /\ \E i \in tracker.issues :
       /\ i.key = GetKey(others.c_done[3].issue)
       /\ i.summary = CONSTRAINTS[3].summary /\ i.status # CONSTRAINTS[3].status

\* C30: every create_constraint call that returned incremented exactly one of
\* created, exists, errors: the three sum to the number of calls that returned.
C30_ConstraintCountersSumToRecords ==
  LET st == others.c_stats
  IN  st.created + st.exists + st.errors
        = Cardinality({k \in 1..Len(others.c_done) : ~others.c_done[k].raised})
====
